---- MODULE Spec2Model ----
(***************************************************************************)
(* State-machine model of the sampling-and-confidence lecture deck.        *)
(*                                                                         *)
(* The deck (page.tsx) mounts exactly one slide component at a time; a     *)
(* slide's React state exists only while it is mounted and is created      *)
(* afresh on every mount.  The slides modelled here are                    *)
(*   ConfidenceIntervals   (the CoverageTracker: intervals, captureRate)   *)
(*   DistributionShape     (convergence curve with an abort flag)          *)
(*   EstimatorConvergence  (convergence curve without an abort flag)       *)
(* together with the sampling loops over the star catalog and the trial    *)
(* count policy.                                                           *)
(*                                                                         *)
(* Numbers.  Floating-point quantities of the ConfidenceIntervals slide    *)
(* are carried in fixed point, in units of 1/SCALE.  A value produced by a *)
(* Monte-Carlo batch (runUniformSim, runStarsSim, runForSampleSize) is     *)
(* carried symbolically as the record of the call that produced it (which  *)
(* run, which sample size, how many trials).                               *)
(*                                                                         *)
(* Math.random is one process-wide generator: `rng' is its state, it is    *)
(* arbitrary at start-up and every sample drawn advances it.               *)
(***************************************************************************)
EXTENDS Integers, Sequences, FiniteSets, TLC

\* ------------------------------------------------------------------ bounds
RngPeriod == 4      \* number of distinct states of the random generator
MaxPending == 1     \* runStep closures of unmounted slides that are left pending
NumStars == 3       \* size of the star population that is sampled
RandRes == 4        \* resolution of one Math.random() draw: u = k / RandRes
MaxDraws == 4       \* draws of one sample that are followed step by step
MaxTrialN == 1000   \* largest sample size handed to the trial-count policy
MaxCatalog == 2     \* number of stars of a catalog
MaxCurve == 1       \* points of a curve built on a stored population
MaxSampleN == 2     \* largest sample size of a batch followed trial by trial
MaxTrials == 2      \* largest number of trials of such a batch
PrngPeriod == 32    \* period of Math.random where a whole takeSample is followed
MaxArrivals == 1    \* buses simulated on RandomVariable before the slide is left
MaxMeans == 2       \* sample means recorded on CentralLimitTheorem
MaxNormals == 2     \* Normal values drawn in a row at one place
SCALE == 100        \* fixed-point resolution: one unit is 1/SCALE

\* ------------------------------------------------------- program constants
TRUE_MEAN == 100
POP_STD == 20
CI_MULTIPLIER == 2
KEEP_PREVIOUS == 50
SLIDER_MIN == 5
SLIDER_MAX == 100
INITIAL_SAMPLE_SIZE == 30

\* The deck, in the order page.tsx lists it; slide indices start at 0.
SLIDES ==
    <<"TitleSlide", "Announcements", "Overview", "HookSlide", "RandomVariable",
      "DistributionZoo", "PopulationSample", "SamplingMethods", "VarianceStdDev",
      "EstimatorConvergence", "DistributionShape", "CentralLimitTheorem",
      "SampleSizeEffect", "ConfidenceIntervals", "Conclusion">>

slideIndex(name) == (CHOOSE i \in 1..Len(SLIDES) : SLIDES[i] = name) - 1

SLIDE_CONVERGENCE == slideIndex("EstimatorConvergence")
SLIDE_SHAPE == slideIndex("DistributionShape")
SLIDE_CI == slideIndex("ConfidenceIntervals")
SLIDE_HOOK == slideIndex("HookSlide")

Min(a, b) == IF a < b THEN a ELSE b
Max(a, b) == IF a > b THEN a ELSE b

\* ------------------------------------------------------------------- state
VARIABLES
    currentSlide,   \* Home: index of the mounted slide
    rng,            \* state of Math.random
    ci,             \* ConfidenceIntervals: [intervals, isRunning, sampleSize]
    ciTimers,       \* ConfidenceIntervals: live setInterval closures (the
                    \* sampleSize each one captured)
    shape,          \* DistributionShape: [starLoaded, isRunning, animationStep,
                    \*                     results, abortRef]
    shapeLoops,     \* DistributionShape: runStep closures with a pending timer
    conv,           \* EstimatorConvergence: [starLoaded, isRunning, currentStep,
                    \*                        results]
    convLoops,      \* EstimatorConvergence: runStep closures with a pending timer
    sampling,       \* a sampling loop over the star data that is followed draw
                    \* by draw: [op, n, indices, drawn]
    trial,          \* a trial batch: [slide, n, trials]
    hook,           \* HookSlide: the reveal step
    script,         \* the browser script that drives the page, if one does:
                    \* [driver, pc, currentIndex, target, hookClicks]
    population,     \* a population built from a star catalog: [slide, catalog,
                    \*                     loaded, lums, stats, curve]
    batch,          \* a trial batch followed trial by trial: [sim, n, trials, t,
                    \*    totalMeanError, totalStdError, done, meanError,
                    \*    stdError, samples, history]
    normal,         \* the Normal values a place has drawn: [site, values]
    poisson,        \* a call of the Poisson sampler: [pc, k, p, result]
    highlight,      \* a call of PopulationSample.takeSample:
                    \* [pc, numStars, u, step, indices]
    distZoo,        \* DistributionZoo
    sizeEffect,     \* SampleSizeEffect
    bus,            \* RandomVariable: the bus simulation
    zoo,            \* CentralLimitTheorem: [selectedType, dist, n,
                    \*    theoreticalMean, sigmaSquared, isRunning,
                    \*    sampleMeans, timers]
    lastOp          \* history variable: the handler that ran last and, for a
                    \* handler that clears a list, how many entries it cleared

ciVars == <<ci, ciTimers, rng>>
shapeVars == <<shape, shapeLoops>>
convVars == <<conv, convLoops>>
labVars == <<population, batch, normal, zoo>>
slideVars == <<poisson, distZoo, sizeEffect, bus, highlight>>
pureVars == <<sampling, trial, labVars, slideVars>>
deckVars == <<currentSlide, rng, ci, ciTimers, shape, shapeLoops, conv, convLoops,
              lastOp, hook, script>>
vars == <<currentSlide, rng, ci, ciTimers, shape, shapeLoops, conv, convLoops,
          sampling, trial, lastOp, hook, script, population, batch, normal, zoo,
          poisson, distZoo, sizeEffect, bus, highlight>>

\* ---------------------------------------------------- ConfidenceIntervals
\* Math.sqrt of x, truncated to an integer; hi is an upper limit of the root.
ISqrt(x, hi) == CHOOSE r \in 0..hi : r * r <= x /\ (r + 1) * (r + 1) > x

\* SE = POP_STD / Math.sqrt(sampleSize), in 1/SCALE units.
SE(sampleSize) ==
    ISqrt((POP_STD * POP_STD * SCALE * SCALE) \div sampleSize, POP_STD * SCALE)

marginOfError(sampleSize) == CI_MULTIPLIER * SE(sampleSize)

\* The mean of the sample that takeSample draws when the generator is in
\* state u (Box-Muller draws around TRUE_MEAN, averaged), in 1/SCALE units.
sampleMeanOf(u) == TRUE_MEAN * SCALE + (u - 1) * 8 * SCALE

\* Advancing the generator by the draws of one sample.
nextRng(u) == (u + 1) % RngPeriod

\* a.slice(-k): the last k elements.
SliceLast(a, k) == IF Len(a) <= k THEN a ELSE SubSeq(a, Len(a) - k + 1, Len(a))

\* Faulty variant of buildInterval: the ends of the interval do not count.
buildInterval_exclusive(sampleMean, margin) ==
    LET lower == sampleMean - margin
        upper == sampleMean + margin
    IN  [mean |-> sampleMean, lower |-> lower, upper |-> upper,
         captured |-> (lower < TRUE_MEAN * SCALE /\ upper > TRUE_MEAN * SCALE)]

\* The interval takeSample builds from a sample mean.
buildInterval(sampleMean, margin) ==
    LET lower == sampleMean - margin
        upper == sampleMean + margin
    IN  [mean |-> sampleMean, lower |-> lower, upper |-> upper,
         captured |-> (lower <= TRUE_MEAN * SCALE /\ upper >= TRUE_MEAN * SCALE)]

\* setIntervals(prev => [...prev.slice(-50), ci])
recordInterval(prev, interval) == Append(SliceLast(prev, KEEP_PREVIOUS), interval)

\* Faulty variant of resetIntervals: the newest interval survives the reset.
resetIntervals_keepLast(prev) == SliceLast(prev, 1)

\* setIntervals([])
resetIntervals(prev) == << >>

\* Faulty variant of capturedCount: the filter is inverted.
capturedCount_missed(intervals) ==
    Cardinality({i \in 1..Len(intervals) : ~intervals[i].captured})

capturedCount(intervals) == Cardinality({i \in 1..Len(intervals) : intervals[i].captured})

\* (x).toFixed(1) of the non-negative quotient num/den, as a count of tenths
\* ("33.3" is 333); ties go to the larger value.
ToFixed1(num, den) == (20 * num + den) \div (2 * den)

\* captureRate, as a count of tenths of a percent ("0.0" is 0).
captureRate(intervals) ==
    IF Len(intervals) > 0 THEN ToFixed1(capturedCount(intervals) * 100, Len(intervals))
    ELSE 0

CIInitial == [intervals |-> << >>, isRunning |-> FALSE, sampleSize |-> INITIAL_SAMPLE_SIZE]

\* Faulty variant of timerEffect: the effect does not look at isRunning.
timerEffect_always(isRunning, sampleSize) == {sampleSize}

\* The timer effect: with isRunning a single setInterval(takeSample, 300)
\* whose closure holds the sample size of the render that created it.
timerEffect(isRunning, sampleSize) == IF isRunning THEN {sampleSize} ELSE {}

\* Faulty variant of takeSample: nothing is recorded once the window is full.
takeSample_untilFull ==
    /\ currentSlide = SLIDE_CI
    /\ Len(ci.intervals) <= KEEP_PREVIOUS
    /\ \E size \in ciTimers :
          ci' = [ci EXCEPT !.intervals =
                    recordInterval(@, buildInterval(sampleMeanOf(rng), marginOfError(size)))]
    /\ rng' = nextRng(rng)
    /\ lastOp' = [op |-> "takeSample", cleared |-> 0]
    /\ UNCHANGED <<currentSlide, ciTimers, shapeVars, convVars, pureVars, hook, script>>

\* One firing of the interval timer: takeSample.
takeSample ==
    /\ currentSlide = SLIDE_CI
    /\ \E size \in ciTimers :
          ci' = [ci EXCEPT !.intervals =
                    recordInterval(@, buildInterval(sampleMeanOf(rng), marginOfError(size)))]
    /\ rng' = nextRng(rng)
    /\ lastOp' = [op |-> "takeSample", cleared |-> 0]
    /\ UNCHANGED <<currentSlide, ciTimers, shapeVars, convVars, pureVars, hook, script>>

\* Run / Pause button.
ToggleRunning ==
    /\ currentSlide = SLIDE_CI
    /\ ci' = [ci EXCEPT !.isRunning = ~@]
    /\ ciTimers' = timerEffect(~ci.isRunning, ci.sampleSize)
    /\ lastOp' = [op |-> "toggle", cleared |-> 0]
    /\ UNCHANGED <<currentSlide, rng, shapeVars, convVars, pureVars, hook, script>>

\* Reset button.
ResetClick ==
    /\ currentSlide = SLIDE_CI
    /\ ci' = [ci EXCEPT !.intervals = resetIntervals(@)]
    /\ lastOp' = [op |-> "reset", cleared |-> Len(ci.intervals)]
    /\ UNCHANGED <<currentSlide, rng, ciTimers, shapeVars, convVars, pureVars, hook, script>>

\* The positions of the sample-size slider that are exercised.
SliderPositions == {n \in SLIDER_MIN..SLIDER_MAX : n \in {25, 30, 100}}

\* Faulty variant of ChangeSampleSize: the timer effect does not depend on
\* the sample size, so the timer of the previous render lives on.
ChangeSampleSize_staleTimer(n) ==
    /\ currentSlide = SLIDE_CI
    /\ n # ci.sampleSize
    /\ ci' = [ci EXCEPT !.sampleSize = n, !.intervals = resetIntervals(@)]
    /\ lastOp' = [op |-> "resize", cleared |-> Len(ci.intervals)]
    /\ UNCHANGED <<currentSlide, rng, ciTimers, shapeVars, convVars, pureVars, hook, script>>

\* Sample-size slider moved to n.
ChangeSampleSize(n) ==
    /\ currentSlide = SLIDE_CI
    /\ n # ci.sampleSize
    /\ ci' = [ci EXCEPT !.sampleSize = n, !.intervals = resetIntervals(@)]
    /\ ciTimers' = timerEffect(ci.isRunning, n)
    /\ lastOp' = [op |-> "resize", cleared |-> Len(ci.intervals)]
    /\ UNCHANGED <<currentSlide, rng, shapeVars, convVars, pureVars, hook, script>>

\* ------------------------------------------------------ DistributionShape
\* The runStep closures that outlived their slide: the instance that started
\* them was unmounted while their timer was pending.
staleLoops == {l \in shapeLoops \cup convLoops : ~l.attached}

\* A name for a new runStep closure: the least one no pending closure bears.
freeId ==
    CHOOSE i \in 1..(Cardinality(shapeLoops \cup convLoops) + 1) :
       /\ \A l \in shapeLoops \cup convLoops : l.id # i
       /\ \A j \in 1..(i - 1) : \E l \in shapeLoops \cup convLoops : l.id = j

SAMPLE_SIZES_Shape ==
    <<5, 8, 10, 12, 15, 20, 25, 30, 40, 50, 60, 75, 90, 100, 125, 150, 175, 200,
      250, 300, 400, 500>>

\* Faulty variant of getTrials: Math.max and Math.min are exchanged.
getTrials_swapped(n) == Min(1000, Max(100000, 1000000 \div n))

\* Math.max(1000, Math.min(100000, Math.floor(1000000 / n)))
getTrials(n) == Max(1000, Min(100000, 1000000 \div n))

\* The value one batch returns, carried as the call that produced it.
runUniformSim(n) == [sim |-> "runUniformSim", n |-> n]

runStarsSim(n) == [sim |-> "runStarsSim", n |-> n]

ShapeEmptyResults == [uniform |-> << >>, stars |-> << >>]

ShapeInitial ==
    [starLoaded |-> FALSE, isRunning |-> FALSE, animationStep |-> 0,
     results |-> ShapeEmptyResults, abortRef |-> FALSE]

\* Faulty variant of runStepShape: step++ is forgotten.
runStepShape_noAdvance(inst, loop) ==
    LET abort == IF loop.attached THEN inst.abortRef ELSE TRUE
    IN  IF abort \/ loop.step >= Len(SAMPLE_SIZES_Shape)
        THEN [inst |-> IF loop.attached THEN [inst EXCEPT !.isRunning = FALSE] ELSE inst,
              loop |-> loop,
              pending |-> FALSE]
        ELSE LET n == SAMPLE_SIZES_Shape[loop.step + 1]
                 pushed == [uniform |-> Append(loop.newResults.uniform,
                                               runUniformSim(n)),
                            stars |-> Append(loop.newResults.stars,
                                             runStarsSim(n))]
             IN  [inst |-> IF loop.attached
                           THEN [inst EXCEPT !.results = pushed,
                                             !.animationStep = loop.step + 1]
                           ELSE inst,
                  loop |-> [loop EXCEPT !.newResults = pushed],
                  pending |-> TRUE]

\* Faulty variant of runStepShape: the step forgets the stars series.
runStepShape_uniformOnly(inst, loop) ==
    LET abort == IF loop.attached THEN inst.abortRef ELSE TRUE
    IN  IF abort \/ loop.step >= Len(SAMPLE_SIZES_Shape)
        THEN [inst |-> IF loop.attached THEN [inst EXCEPT !.isRunning = FALSE] ELSE inst,
              loop |-> loop,
              pending |-> FALSE]
        ELSE LET n == SAMPLE_SIZES_Shape[loop.step + 1]
                 pushed == [uniform |-> Append(loop.newResults.uniform,
                                               runUniformSim(n)),
                            stars |-> loop.newResults.stars]
             IN  [inst |-> IF loop.attached
                           THEN [inst EXCEPT !.results = pushed,
                                             !.animationStep = loop.step + 1]
                           ELSE inst,
                  loop |-> [loop EXCEPT !.newResults = pushed, !.step = @ + 1],
                  pending |-> TRUE]

\* One call of runStep of DistributionShape.  `inst' is the state of the
\* mounted instance, `loop' the closure (step, newResults).  A closure whose
\* instance was unmounted reads abortRef = true (set by the clean-up) and
\* its setState calls have no effect.
runStepShape(inst, loop) ==
    LET abort == IF loop.attached THEN inst.abortRef ELSE TRUE
    IN  IF abort \/ loop.step >= Len(SAMPLE_SIZES_Shape)
        THEN [inst |-> IF loop.attached THEN [inst EXCEPT !.isRunning = FALSE] ELSE inst,
              loop |-> loop,
              pending |-> FALSE]
        ELSE LET n == SAMPLE_SIZES_Shape[loop.step + 1]
                 pushed == [uniform |-> Append(loop.newResults.uniform,
                                               runUniformSim(n)),
                            stars |-> Append(loop.newResults.stars,
                                             runStarsSim(n))]
             IN  [inst |-> IF loop.attached
                           THEN [inst EXCEPT !.results = pushed,
                                             !.animationStep = loop.step + 1]
                           ELSE inst,
                  loop |-> [loop EXCEPT !.newResults = pushed, !.step = @ + 1],
                  pending |-> TRUE]

\* The fetch of stars.json resolves while the slide is mounted.
LoadStarsShape ==
    /\ currentSlide = SLIDE_SHAPE
    /\ ~shape.starLoaded
    /\ shape' = [shape EXCEPT !.starLoaded = TRUE]
    /\ lastOp' = [op |-> "load", cleared |-> 0]
    /\ UNCHANGED <<currentSlide, ciVars, shapeLoops, convVars, pureVars, hook, script>>

\* Faulty variant of runSimulationShape: the button is not disabled during a run.
runSimulationShape_whileRunning ==
    /\ currentSlide = SLIDE_SHAPE
    /\ shape.starLoaded
    /\ Cardinality(staleLoops) < MaxPending
    /\ LET started == [shape EXCEPT !.isRunning = TRUE, !.animationStep = 0,
                                    !.results = ShapeEmptyResults,
                                    !.abortRef = FALSE]
           closure == [id |-> freeId, step |-> 0,
                       newResults |-> ShapeEmptyResults, attached |-> TRUE]
           after == runStepShape(started, closure)
       IN  /\ shape' = after.inst
           /\ shapeLoops' = shapeLoops \cup (IF after.pending THEN {after.loop} ELSE {})
    /\ lastOp' = [op |-> "runSimulation", cleared |-> Len(shape.results.uniform)]
    /\ UNCHANGED <<currentSlide, ciVars, convVars, pureVars, hook, script>>

\* Run Simulation button (disabled while isRunning or before the data is
\* there): runSimulation, including its first, synchronous runStep.
runSimulationShape ==
    /\ currentSlide = SLIDE_SHAPE
    /\ ~(shape.isRunning \/ ~shape.starLoaded)
    /\ Cardinality(staleLoops) < MaxPending
    /\ LET started == [shape EXCEPT !.isRunning = TRUE, !.animationStep = 0,
                                    !.results = ShapeEmptyResults,
                                    !.abortRef = FALSE]
           closure == [id |-> freeId, step |-> 0,
                       newResults |-> ShapeEmptyResults, attached |-> TRUE]
           after == runStepShape(started, closure)
       IN  /\ shape' = after.inst
           /\ shapeLoops' = shapeLoops \cup (IF after.pending THEN {after.loop} ELSE {})
    /\ lastOp' = [op |-> "runSimulation", cleared |-> Len(shape.results.uniform)]
    /\ UNCHANGED <<currentSlide, ciVars, convVars, pureVars, hook, script>>

\* The timer of a pending runStep of DistributionShape fires.
StepShape ==
    \E loop \in shapeLoops :
       LET after == runStepShape(shape, loop)
       IN  /\ shape' = after.inst
           /\ shapeLoops' = (shapeLoops \ {loop})
                               \cup (IF after.pending THEN {after.loop} ELSE {})
           /\ lastOp' = [op |-> "runStep", cleared |-> 0]
           /\ UNCHANGED <<currentSlide, ciVars, convVars, pureVars, hook, script>>

\* --------------------------------------------------- EstimatorConvergence
SAMPLE_SIZES_Convergence == <<5, 10, 15, 20, 30, 50, 75, 100, 150, 200, 300, 500>>

TRIALS_PER_SIZE == 500

\* The pair runForSampleSize returns, carried as the call that produced it.
runForSampleSize(n) ==
    [meanError |-> [sim |-> "meanError", n |-> n],
     stdError |-> [sim |-> "stdError", n |-> n]]

ConvEmptyResults == [meanErrors |-> << >>, stdErrors |-> << >>]

ConvInitial ==
    [starLoaded |-> FALSE, isRunning |-> FALSE, currentStep |-> 0,
     results |-> ConvEmptyResults]

\* Faulty variant of runStepConvergence: the schedule is read from its far end.
runStepConvergence_fromEnd(inst, loop) ==
    IF loop.step >= Len(SAMPLE_SIZES_Convergence)
    THEN [inst |-> IF loop.attached THEN [inst EXCEPT !.isRunning = FALSE] ELSE inst,
          loop |-> loop,
          pending |-> FALSE]
    ELSE LET n == SAMPLE_SIZES_Convergence[Len(SAMPLE_SIZES_Convergence) - loop.step]
             r == runForSampleSize(n)
             means == Append(loop.newMeanErrors, r.meanError)
             stds == Append(loop.newStdErrors, r.stdError)
         IN  [inst |-> IF loop.attached
                       THEN [inst EXCEPT !.results = [meanErrors |-> means,
                                                      stdErrors |-> stds],
                                         !.currentStep = loop.step + 1]
                       ELSE inst,
              loop |-> [loop EXCEPT !.newMeanErrors = means, !.newStdErrors = stds,
                                    !.step = @ + 1],
              pending |-> TRUE]

\* One call of runStep of EstimatorConvergence.  The setState calls of a
\* closure whose instance was unmounted have no effect.
runStepConvergence(inst, loop) ==
    IF loop.step >= Len(SAMPLE_SIZES_Convergence)
    THEN [inst |-> IF loop.attached THEN [inst EXCEPT !.isRunning = FALSE] ELSE inst,
          loop |-> loop,
          pending |-> FALSE]
    ELSE LET n == SAMPLE_SIZES_Convergence[loop.step + 1]
             r == runForSampleSize(n)
             means == Append(loop.newMeanErrors, r.meanError)
             stds == Append(loop.newStdErrors, r.stdError)
         IN  [inst |-> IF loop.attached
                       THEN [inst EXCEPT !.results = [meanErrors |-> means,
                                                      stdErrors |-> stds],
                                         !.currentStep = loop.step + 1]
                       ELSE inst,
              loop |-> [loop EXCEPT !.newMeanErrors = means, !.newStdErrors = stds,
                                    !.step = @ + 1],
              pending |-> TRUE]

\* The fetch of stars.json resolves while the slide is mounted.
LoadStarsConvergence ==
    /\ currentSlide = SLIDE_CONVERGENCE
    /\ ~conv.starLoaded
    /\ conv' = [conv EXCEPT !.starLoaded = TRUE]
    /\ lastOp' = [op |-> "load", cleared |-> 0]
    /\ UNCHANGED <<currentSlide, ciVars, shapeVars, convLoops, pureVars, hook, script>>

\* Run Simulation button (disabled while isRunning); runSimulation returns at
\* once while the data is missing, otherwise it includes its first runStep.
runSimulationConvergence ==
    /\ currentSlide = SLIDE_CONVERGENCE
    /\ ~conv.isRunning
    /\ conv.starLoaded
    /\ Cardinality(staleLoops) < MaxPending
    /\ LET started == [conv EXCEPT !.isRunning = TRUE, !.currentStep = 0,
                                   !.results = ConvEmptyResults]
           closure == [id |-> freeId, step |-> 0, newMeanErrors |-> << >>,
                       newStdErrors |-> << >>, attached |-> TRUE]
           after == runStepConvergence(started, closure)
       IN  /\ conv' = after.inst
           /\ convLoops' = convLoops \cup (IF after.pending THEN {after.loop} ELSE {})
    /\ lastOp' = [op |-> "runSimulation", cleared |-> Len(conv.results.meanErrors)]
    /\ UNCHANGED <<currentSlide, ciVars, shapeVars, pureVars, hook, script>>

\* The timer of a pending runStep of EstimatorConvergence fires.
StepConvergence ==
    \E loop \in convLoops :
       LET after == runStepConvergence(conv, loop)
       IN  /\ conv' = after.inst
           /\ convLoops' = (convLoops \ {loop})
                              \cup (IF after.pending THEN {after.loop} ELSE {})
           /\ lastOp' = [op |-> "runStep", cleared |-> 0]
           /\ UNCHANGED <<currentSlide, ciVars, shapeVars, pureVars, hook, script>>

\* ------------------------------------------- sampling the star population
SAMPLE_SIZE == 30

\* One Math.random() draw is k / RandRes for some k.
RandomDraws == 0..(RandRes - 1)

\* Math.floor(Math.random() * numStars)
randomIndex(k, numStars) == (k * numStars) \div RandRes

Range(a) == {a[i] : i \in 1..Len(a)}

\* Faulty variant of keepDraw: a star already in the sample is not taken again.
keepDraw_unique(indices, idx) ==
    IF idx \in Range(indices) THEN indices ELSE Append(indices, idx)

\* runStarsSim / runForSampleSize: samples[i] = starLuminosities[idx].
keepDraw(indices, idx) == Append(indices, idx)

\* Faulty variant of keepDrawIfNew: the index is pushed whether it is new or not.
keepDrawIfNew_always(indices, idx) == Append(indices, idx)

\* PopulationSample.takeSample: if (!indices.includes(idx)) indices.push(idx).
keepDrawIfNew(indices, idx) == IF idx \in Range(indices) THEN indices ELSE Append(indices, idx)

SamplingIdle == [op |-> "idle", n |-> 0, indices |-> << >>, drawn |-> << >>]

\* A sample of one trial of runStarsSim (DistributionShape) is begun.
BeginRunStarsSim(n) ==
    /\ sampling.op = "idle"
    /\ sampling' = [op |-> "runStarsSim", n |-> n, indices |-> << >>, drawn |-> << >>]
    /\ UNCHANGED <<deckVars, trial, labVars, slideVars>>

\* A sample of one trial of runForSampleSize (EstimatorConvergence) is begun.
BeginRunForSampleSize(n) ==
    /\ sampling.op = "idle"
    /\ sampling' = [op |-> "runForSampleSize", n |-> n, indices |-> << >>,
                    drawn |-> << >>]
    /\ UNCHANGED <<deckVars, trial, labVars, slideVars>>

\* PopulationSample.takeSample is begun.
BeginTakeSample ==
    /\ sampling.op = "idle"
    /\ sampling' = [op |-> "takeSample", n |-> SAMPLE_SIZE, indices |-> << >>,
                    drawn |-> << >>]
    /\ UNCHANGED <<deckVars, trial, labVars, slideVars>>

\* One iteration of the inner loop of runStarsSim / runForSampleSize.
DrawStar ==
    /\ sampling.op \in {"runStarsSim", "runForSampleSize"}
    /\ Len(sampling.indices) < sampling.n
    /\ Len(sampling.drawn) < MaxDraws
    /\ \E k \in RandomDraws :
          LET idx == randomIndex(k, NumStars)
          IN  sampling' = [sampling EXCEPT !.indices = keepDraw(@, idx),
                                           !.drawn = Append(@, idx)]
    /\ UNCHANGED <<deckVars, trial, labVars, slideVars>>

\* One iteration of the while loop of PopulationSample.takeSample.
DrawHighlighted ==
    /\ sampling.op = "takeSample"
    /\ Len(sampling.indices) < sampling.n
    /\ Len(sampling.drawn) < MaxDraws
    /\ \E k \in RandomDraws :
          LET idx == randomIndex(k, NumStars)
          IN  sampling' = [sampling EXCEPT !.indices = keepDrawIfNew(@, idx),
                                           !.drawn = Append(@, idx)]
    /\ UNCHANGED <<deckVars, trial, labVars, slideVars>>

\* The sample is complete, or is followed no further.
LeaveSample ==
    /\ sampling.op # "idle"
    /\ Len(sampling.indices) = sampling.n \/ Len(sampling.drawn) = MaxDraws
    /\ sampling' = SamplingIdle
    /\ UNCHANGED <<deckVars, trial, labVars, slideVars>>

\* ------------------------------------- PopulationSample.takeSample, whole
\* Catalog sizes around SAMPLE_SIZE.
HighlightCatalogSizes == {0, SAMPLE_SIZE - 1, SAMPLE_SIZE, SAMPLE_SIZE + 1}

\* Math.random as a generator of full period: the value u / PrngPeriod, and
\* the state moved on by a step coprime to the period.
PrngSteps == {1, PrngPeriod - 1}

prngNext(u, step) == (u + step) % PrngPeriod

\* Math.floor(Math.random() * starData.stars.length)
starIndex(u, numStars) == (u * numStars) \div PrngPeriod

HighlightIdle == [pc |-> "idle", numStars |-> 0, u |-> 0, step |-> 1, indices |-> << >>]

\* takeSample is called on a loaded catalog: const indices = [].
BeginHighlight(numStars, seed, step) ==
    /\ highlight.pc = "idle"
    /\ highlight' = [pc |-> "loop", numStars |-> numStars, u |-> seed, step |-> step,
                     indices |-> << >>]
    /\ UNCHANGED <<deckVars, sampling, trial, labVars, poisson, distZoo, sizeEffect, bus>>

\* One turn of while (indices.length < SAMPLE_SIZE).
HighlightTurn ==
    /\ highlight.pc = "loop"
    /\ Len(highlight.indices) < SAMPLE_SIZE
    /\ highlight' = [highlight EXCEPT
                        !.indices = keepDrawIfNew(@, starIndex(highlight.u, highlight.numStars)),
                        !.u = prngNext(@, highlight.step)]
    /\ UNCHANGED <<deckVars, sampling, trial, labVars, poisson, distZoo, sizeEffect, bus>>

\* The loop is left: setHighlightedStars(indices).
HighlightDone ==
    /\ highlight.pc = "loop"
    /\ Len(highlight.indices) >= SAMPLE_SIZE
    /\ highlight' = [highlight EXCEPT !.pc = "done"]
    /\ UNCHANGED <<deckVars, sampling, trial, labVars, poisson, distZoo, sizeEffect, bus>>

\* The next click, or the slide is left.
LeaveHighlight ==
    /\ highlight.pc = "done"
    /\ highlight' = HighlightIdle
    /\ UNCHANGED <<deckVars, sampling, trial, labVars, poisson, distZoo, sizeEffect, bus>>

\* ------------------------------------------------------------ trial count
TrialIdle == [slide |-> "none", n |-> 0, trials |-> 0]

\* The number of iterations of the trial loop for sample size n.
trialsFor(slide, n) == IF slide = "DistributionShape" THEN getTrials(n) ELSE TRIALS_PER_SIZE

\* One trial batch (runUniformSim and runStarsSim of DistributionShape,
\* runForSampleSize of EstimatorConvergence) for sample size n.
RunBatch(slide, n) ==
    /\ trial.slide = "none"
    /\ trial' = [slide |-> slide, n |-> n, trials |-> trialsFor(slide, n)]
    /\ UNCHANGED <<deckVars, sampling, labVars, slideVars>>

\* The batch has returned its value.
BatchDone ==
    /\ trial.slide # "none"
    /\ trial' = TrialIdle
    /\ UNCHANGED <<deckVars, sampling, labVars, slideVars>>

\* -------------------------------------------------------------- HookSlide
\* useState(0)
HookInitial == 0

nextStep(s) == Min(s + 1, 3)

prevStep(s) == Max(s - 1, 0)

\* The Back button is rendered when step > 0.
backButton(step) == step > 0

\* Faulty variant of forwardButton: the button is rendered at every step.
forwardButton_always(step) ==
    IF step = 0 THEN "Reveal sigma"
    ELSE IF step = 1 THEN "Show Distributions"
    ELSE "Show Probabilities"

\* The forward button and its label ("sigma" stands for the Greek letter);
\* it is rendered when step < 3.
forwardButton(step) ==
    IF step < 3
    THEN IF step = 0 THEN "Reveal sigma"
         ELSE IF step = 1 THEN "Show Distributions"
         ELSE "Show Probabilities"
    ELSE "none"

\* The Late Probabilities panel is rendered when step >= 3.
lateProbabilities(step) == step >= 3

\* A click on the forward button by the person at the deck.
ClickForward ==
    /\ script.driver = "none"
    /\ currentSlide = SLIDE_HOOK
    /\ forwardButton(hook) # "none"
    /\ hook' = nextStep(hook)
    /\ lastOp' = [op |-> "nextStep", cleared |-> 0]
    /\ UNCHANGED <<currentSlide, ciVars, shapeVars, convVars, pureVars, script>>

\* A click on Back.
ClickBack ==
    /\ script.driver = "none"
    /\ currentSlide = SLIDE_HOOK
    /\ backButton(hook)
    /\ hook' = prevStep(hook)
    /\ lastOp' = [op |-> "prevStep", cleared |-> 0]
    /\ UNCHANGED <<currentSlide, ciVars, shapeVars, convVars, pureVars, script>>

\* ------------------------------------------------- populations of stars
\* Magnitudes are carried in tenths (mag 4.5 is 45), so that the luminosity
\* 100 - mag * 10 is an integer; stars.json is any list of such magnitudes.
Magnitudes == {10, 20, 21, 45, 99, 100, 110}

RECURSIVE CatalogsOfLength(_)
CatalogsOfLength(k) ==
    IF k = 0 THEN {<< >>}
    ELSE {Append(c, m) : c \in CatalogsOfLength(k - 1), m \in Magnitudes}

Catalogs == UNION {CatalogsOfLength(k) : k \in 0..MaxCatalog}

\* 100 - mag * 10, mag in tenths
magToLuminosity(mag) == 100 - mag

RECURSIVE SumSeq(_)
SumSeq(a) == IF a = << >> THEN 0 ELSE a[1] + SumSeq(Tail(a))

\* The mean and the population standard deviation of lums, carried exactly:
\* mean = sum / n and std = sqrt(sq) / n, where sq = n * (sum of the squares)
\* - sum^2 is n^2 times the variance sumSq / n.  With n = 0 both are 0 / 0.
statsOf(lums) ==
    [n |-> Len(lums),
     sum |-> SumSeq(lums),
     sq |-> Len(lums) * SumSeq([i \in 1..Len(lums) |-> lums[i] * lums[i]])
              - SumSeq(lums) * SumSeq(lums)]

allLuminosities(catalog) == [i \in 1..Len(catalog) |-> magToLuminosity(catalog[i])]

keepLum(lum) == lum > 0 /\ lum < 80

\* DistributionShape: allLums holds the luminosities with lum > 0 && lum < 80.
starLuminosities_Shape(catalog) == SelectSeq(allLuminosities(catalog), keepLum)

\* EstimatorConvergence: lums[i] = magToLuminosity(data.stars[i].mag), every i.
starLuminosities_Convergence(catalog) == allLuminosities(catalog)

\* PopulationSample: starData.stars.map(s => magToLuminosity(s.mag)) and its
\* mean and standard deviation.
populationLuminosityStats(catalog) == statsOf(allLuminosities(catalog))

PopulationSlides == {"DistributionShape", "EstimatorConvergence", "PopulationSample"}

\* The luminosities a slide keeps as its population.
starLuminosities(slide, catalog) ==
    IF slide = "DistributionShape" THEN starLuminosities_Shape(catalog)
    ELSE starLuminosities_Convergence(catalog)

\* The ground truth (starStats, popStats, populationLuminosityStats) of a slide.
starStats(slide, catalog) ==
    IF slide = "PopulationSample" THEN populationLuminosityStats(catalog)
    ELSE statsOf(starLuminosities(slide, catalog))

PopulationIdle ==
    [slide |-> "none", catalog |-> << >>, loaded |-> FALSE, lums |-> << >>,
     stats |-> [n |-> 0, sum |-> 0, sq |-> 0], curve |-> << >>]

\* The fetch of stars.json resolves on a slide: the population and the
\* ground truth are stored.
LoadCatalog(slide, catalog) ==
    /\ population.slide = "none"
    /\ population' = [slide |-> slide, catalog |-> catalog, loaded |-> TRUE,
                      lums |-> starLuminosities(slide, catalog),
                      stats |-> starStats(slide, catalog),
                      curve |-> << >>]
    /\ UNCHANGED <<deckVars, sampling, trial, batch, normal, zoo, slideVars>>

\* The value runStarsSim / runForSampleSize (its stdError) returns on the
\* stored population.  Without a population the early return gives 0.  With
\* no observation every sample is starLuminosities[0] = undefined, and with a
\* population of standard deviation 0 the result is 0 / 0: both are NaN.
starsBatchValue(pop, n) ==
    [sim |-> IF pop.slide = "DistributionShape" THEN "runStarsSim" ELSE "stdError",
     n |-> n,
     value |-> IF ~pop.loaded THEN "0"
               ELSE IF pop.stats.n = 0 \/ pop.stats.sq = 0 THEN "NaN"
               ELSE "finite"]

\* Run Simulation on the stored population: runSimulation returns at once
\* while starLuminosities or the ground truth is null (an empty Float64Array
\* and a stats object of NaN are not); its runStep pushes the batch value of
\* the next sample size onto the curve.
RunStepOnPopulation ==
    /\ population.slide \in {"DistributionShape", "EstimatorConvergence"}
    /\ population.loaded
    /\ Len(population.curve) < MaxCurve
    /\ LET schedule == IF population.slide = "DistributionShape"
                       THEN SAMPLE_SIZES_Shape ELSE SAMPLE_SIZES_Convergence
           n == schedule[Len(population.curve) + 1]
       IN  population' = [population EXCEPT
                             !.curve = Append(@, starsBatchValue(population, n))]
    /\ UNCHANGED <<deckVars, sampling, trial, batch, normal, zoo, slideVars>>

\* The slide is left.
LeavePopulation ==
    /\ population.slide # "none"
    /\ population' = PopulationIdle
    /\ UNCHANGED <<deckVars, sampling, trial, batch, normal, zoo, slideVars>>

\* ------------------------------------------------------- one trial batch
\* A float is carried in fixed point (units of 1/SCALE) next to a flag that
\* tells NaN: [nan, v].
NaN == [nan |-> TRUE, v |-> 0]

Num(x) == [nan |-> FALSE, v |-> x]

Abs(x) == IF x < 0 THEN -x ELSE x

\* a + b
fAdd(a, b) == IF a.nan \/ b.nan THEN NaN ELSE Num(a.v + b.v)

\* Math.abs(a - b)
fAbsDiff(a, b) == IF a.nan \/ b.nan THEN NaN ELSE Num(Abs(a.v - b.v))

\* a / k for an integer k > 0
fDivInt(a, k) == IF a.nan THEN NaN ELSE Num(a.v \div k)

\* a / b * 100 for b > 0
fPercentOf(a, b) == IF a.nan \/ b.nan THEN NaN ELSE Num(((a.v * SCALE) \div b.v) * 100)

RECURSIVE SqrtIn(_, _, _)
SqrtIn(x, lo, hi) ==
    IF lo = hi THEN lo
    ELSE LET mid == (lo + hi + 1) \div 2
         IN  IF mid * mid <= x THEN SqrtIn(x, mid, hi) ELSE SqrtIn(x, lo, mid - 1)

\* Math.sqrt of x, truncated to an integer
FloorSqrt(x) == SqrtIn(x, 0, Min(x, 46340))

\* The star population the batches sample from: NumStars luminosities.
BatchLums == [i \in 1..NumStars |-> magToLuminosity(20 + 15 * i)]

\* The values one draw can give: Math.random() for runUniformSim, a
\* luminosity starLuminosities[idx] for the two star simulations.
drawValues(sim) ==
    IF sim = "runUniformSim" THEN {(k * SCALE) \div RandRes : k \in RandomDraws}
    ELSE {BatchLums[randomIndex(k, NumStars) + 1] * SCALE : k \in RandomDraws}

\* popStats.mean of the star population
popMean(sim) == Num((SumSeq(BatchLums) * SCALE) \div NumStars)

\* popStd: 1 / Math.sqrt(12) for Uniform[0,1], else Math.sqrt(sumSq / count)
popStd(sim) ==
    IF sim = "runUniformSim" THEN Num(FloorSqrt((SCALE * SCALE) \div 12))
    ELSE Num(FloorSqrt((statsOf(BatchLums).sq * SCALE * SCALE)
                          \div (NumStars * NumStars)))

\* mean = sum / n
sampleMeanOfSamples(samples) == Num(SumSeq(samples) \div Len(samples))

\* sumSq += (samples[i] - mean) ** 2, in units of 1/SCALE^2
sumSqOf(samples) ==
    LET mean == sampleMeanOfSamples(samples).v
    IN  SumSeq([i \in 1..Len(samples) |-> (samples[i] - mean) * (samples[i] - mean)])

\* Math.sqrt(sumSq / (n - 1)); with n = 1 it is the square root of 0 / 0.
sampleStdOf(samples) ==
    IF Len(samples) = 1 THEN NaN
    ELSE Num(FloorSqrt(sumSqOf(samples) \div (Len(samples) - 1)))

\* Faulty variant of accumulate: the total is overwritten, not added to.
accumulate_overwrite(total, estimate, truth) == fAbsDiff(estimate, truth)

\* totalError += Math.abs(estimate - truth)
accumulate(total, estimate, truth) == fAdd(total, fAbsDiff(estimate, truth))

\* (totalError / trials) / truth * 100
percentError(total, trials, truth) == fPercentOf(fDivInt(total, trials), truth)

BatchSims == {"runUniformSim", "runStarsSim", "runForSampleSize"}

BatchIdle ==
    [sim |-> "none", n |-> 0, trials |-> 0, t |-> 0,
     totalMeanError |-> Num(0), totalStdError |-> Num(0),
     done |-> FALSE, meanError |-> Num(0), stdError |-> Num(0),
     samples |-> << >>, history |-> << >>]

\* A batch is entered for sample size n: the totals are 0.  The trial loop is
\* followed for `trials' trials (getTrials(n) or TRIALS_PER_SIZE in the deck).
BeginBatch(sim, n, trials) ==
    /\ batch.sim = "none"
    /\ batch' = [BatchIdle EXCEPT !.sim = sim, !.n = n, !.trials = trials]
    /\ UNCHANGED <<deckVars, sampling, trial, population, normal, zoo, slideVars>>

\* One pass of the trial loop: a sample of n values is drawn and the absolute
\* errors of its mean (runForSampleSize only) and of its standard deviation
\* are added to the totals.  `samples' is the sample of the latest trial and
\* `history' remembers what each trial measured.
BatchTrial ==
    /\ batch.sim # "none"
    /\ ~batch.done
    /\ batch.t < batch.trials
    /\ \E samples \in [1..batch.n -> drawValues(batch.sim)] :
          LET sampleMean == sampleMeanOfSamples(samples)
              sampleStd == sampleStdOf(samples)
          IN  batch' = [batch EXCEPT
                 !.t = @ + 1,
                 !.totalMeanError =
                     IF batch.sim = "runForSampleSize"
                     THEN accumulate(@, sampleMean, popMean(batch.sim)) ELSE @,
                 !.totalStdError = accumulate(@, sampleStd, popStd(batch.sim)),
                 !.samples = samples,
                 !.history = Append(@, [sampleMean |-> sampleMean,
                                        sampleStd |-> sampleStd])]
    /\ UNCHANGED <<deckVars, sampling, trial, population, normal, zoo, slideVars>>

\* The loop is over: the batch returns its percentages.
BatchReturn ==
    /\ batch.sim # "none"
    /\ ~batch.done
    /\ batch.t = batch.trials
    /\ batch' = [batch EXCEPT
          !.done = TRUE,
          !.meanError =
              IF batch.sim = "runForSampleSize"
              THEN percentError(batch.totalMeanError, batch.trials, popMean(batch.sim))
              ELSE @,
          !.stdError = percentError(batch.totalStdError, batch.trials,
                                    popStd(batch.sim))]
    /\ UNCHANGED <<deckVars, sampling, trial, population, normal, zoo, slideVars>>

\* The caller has taken the value.
LeaveBatch ==
    /\ batch.done
    /\ batch' = BatchIdle
    /\ UNCHANGED <<deckVars, sampling, trial, population, normal, zoo, slideVars>>

\* ------------------------------------------------------------ Box-Muller
\* The places that draw Normal values with the Box-Muller transform.
NormalSites ==
    {"distributions.normal.sample",     \* CentralLimitTheorem
     "generateNormalSamples",           \* VarianceStdDev
     "RandomVariable",                  \* the arrival time of the RandomVariable slide
     "takeSample"}                      \* ConfidenceIntervals

\* The uniform value handed to Math.log, in units of 1/RandRes, when
\* Math.random() returned k / RandRes: takeSample uses u = 1 - Math.random(),
\* the other places u1 = Math.random().
logArgument(site, k) == IF site = "takeSample" THEN RandRes - k ELSE k

\* z = Math.sqrt(-2 * Math.log(u1)) * Math.cos(2 * Math.PI * u2): Math.log(0)
\* is -Infinity and z is then Infinity or -Infinity.
boxMuller(site, k1, k2) ==
    [u1 |-> logArgument(site, k1), u2 |-> k2,
     z |-> IF logArgument(site, k1) = 0 THEN "Infinity" ELSE "finite"]

NormalIdle == [site |-> "none", values |-> << >>]

\* A place starts drawing Normal values.
BeginNormal(site) ==
    /\ normal.site = "none"
    /\ normal' = [site |-> site, values |-> << >>]
    /\ UNCHANGED <<deckVars, sampling, trial, population, batch, zoo, slideVars>>

\* One Box-Muller call: two calls of Math.random(), one value.
DrawNormal ==
    /\ normal.site # "none"
    /\ Len(normal.values) < MaxNormals
    /\ \E k1 \in RandomDraws, k2 \in RandomDraws :
          normal' = [normal EXCEPT !.values = Append(@, boxMuller(normal.site, k1, k2))]
    /\ UNCHANGED <<deckVars, sampling, trial, population, batch, zoo, slideVars>>

\* The values are used.
LeaveNormal ==
    /\ normal.site # "none"
    /\ normal' = NormalIdle
    /\ UNCHANGED <<deckVars, sampling, trial, population, batch, zoo, slideVars>>

\* ------------------------------------------------------ distribution zoo
\* ------------------------------------------------- the Poisson sampler
POISSON_LAMBDA == 4

\* The running product is kept in units of 1/ProductUnit, a resolution at
\* which products of draws fall on L as well as on either side of it.
ProductUnit == 20 * SCALE

\* const L = Math.exp(-lambda), in those units (e^-4 = 0.018316).
poissonL == (ProductUnit * 18316) \div 1000000

\* Math.random() yields j / RandRes for a j in 0..RandRes - 1: a value in [0, 1).
UniformDraws == 0..(RandRes - 1)

\* p *= Math.random(), the product rounded to the resolution.
timesDraw(p, j) == (p * j) \div RandRes

\* Faulty variant of keepMultiplying: the loop goes on at p = L.
keepMultiplying_atL(p) == p >= poissonL

\* while (p > L)
keepMultiplying(p) == p > poissonL

PoissonIdle == [pc |-> "idle", k |-> 0, p |-> 0, result |-> 0]

\* sample() is called: let k = 0, p = 1.
BeginPoisson ==
    /\ poisson.pc = "idle"
    /\ poisson' = [pc |-> "loop", k |-> 0, p |-> ProductUnit, result |-> 0]
    /\ UNCHANGED <<deckVars, sampling, trial, labVars, distZoo, sizeEffect, bus, highlight>>

\* One turn of do { k++; p *= Math.random(); } while (p > L), and
\* return k - 1 when the condition fails.
PoissonTurn(j) ==
    /\ poisson.pc = "loop"
    /\ LET k == poisson.k + 1
           p == timesDraw(poisson.p, j)
       IN poisson' = IF keepMultiplying(p)
                     THEN [poisson EXCEPT !.k = k, !.p = p]
                     ELSE [pc |-> "returned", k |-> k, p |-> p, result |-> k - 1]
    /\ UNCHANGED <<deckVars, sampling, trial, labVars, distZoo, sizeEffect, bus, highlight>>

\* The caller has the sample.
LeavePoisson ==
    /\ poisson.pc = "returned"
    /\ poisson' = PoissonIdle
    /\ UNCHANGED <<deckVars, sampling, trial, labVars, distZoo, sizeEffect, bus, highlight>>

\* ------------------------------------------------------ DistributionZoo
\* The distributions of DistributionZoo and the type each one declares.
zooDiscreteDists == <<"uniform", "bernoulli", "binomial", "poisson">>

zooContinuousDists == <<"normal", "exponential", "uniform_cont">>

zooDistType(key) ==
    IF key \in {"uniform", "bernoulli", "binomial", "poisson"} THEN "discrete"
    ELSE "continuous"

\* The list the slide renders for a type.
zooListOf(type) == IF type = "discrete" THEN zooDiscreteDists ELSE zooContinuousDists

DistZooIdle == [selectedType |-> "none", selectedDist |-> "none", showExamples |-> FALSE]

\* DistributionZoo is mounted: useState("discrete"), ("uniform"), (false).
MountDistZoo ==
    /\ distZoo.selectedDist = "none"
    /\ distZoo' = [selectedType |-> "discrete", selectedDist |-> "uniform",
                   showExamples |-> FALSE]
    /\ UNCHANGED <<deckVars, sampling, trial, labVars, poisson, sizeEffect, bus, highlight>>

\* Faulty variant of SelectTypeDistZoo: the toggle leaves the distribution.
SelectTypeDistZoo_typeOnly(type) ==
    /\ distZoo.selectedDist # "none"
    /\ distZoo' = [distZoo EXCEPT !.selectedType = type]
    /\ UNCHANGED <<deckVars, sampling, trial, labVars, poisson, sizeEffect, bus, highlight>>

\* The Discrete / Continuous toggle:
\* setSelectedType("discrete"); setSelectedDist("uniform"), and
\* setSelectedType("continuous"); setSelectedDist("normal").
SelectTypeDistZoo(type) ==
    /\ distZoo.selectedDist # "none"
    /\ distZoo' = [distZoo EXCEPT !.selectedType = type,
                                  !.selectedDist = IF type = "discrete" THEN "uniform"
                                                   ELSE "normal"]
    /\ UNCHANGED <<deckVars, sampling, trial, labVars, poisson, sizeEffect, bus, highlight>>

\* A button of the distribution list, which shows the selected type only.
SelectDistDistZoo(key) ==
    /\ distZoo.selectedDist # "none"
    /\ key \in Range(zooListOf(distZoo.selectedType))
    /\ distZoo' = [distZoo EXCEPT !.selectedDist = key]
    /\ UNCHANGED <<deckVars, sampling, trial, labVars, poisson, sizeEffect, bus, highlight>>

\* The examples modal is opened or closed.
ToggleExamples ==
    /\ distZoo.selectedDist # "none"
    /\ distZoo' = [distZoo EXCEPT !.showExamples = ~@]
    /\ UNCHANGED <<deckVars, sampling, trial, labVars, poisson, sizeEffect, bus, highlight>>

\* The slide is left.
LeaveDistZoo ==
    /\ distZoo.selectedDist # "none"
    /\ distZoo' = DistZooIdle
    /\ UNCHANGED <<deckVars, sampling, trial, labVars, poisson, sizeEffect, bus, highlight>>

\* ----------------------------------------------------- SampleSizeEffect
TRUE_EFFECT == 5

PATIENT_STD == 15

\* const se = PATIENT_STD / Math.sqrt(n), in units of 1/SCALE.
seOf(n) == FloorSqrt((PATIENT_STD * PATIENT_STD * SCALE * SCALE) \div n)

\* ciLow and ciHigh: TRUE_EFFECT -/+ 1.96 * se, in units of 1/SCALE.
ciOf(n) ==
    [low |-> TRUE_EFFECT * SCALE - (196 * seOf(n)) \div 100,
     high |-> TRUE_EFFECT * SCALE + (196 * seOf(n)) \div 100]

\* SampleSizeEffect as rendered; last is a history field: the input that
\* was handled last.
sizeEffectState(n, showCI, last) ==
    [mounted |-> TRUE, n |-> n, showCI |-> showCI, ci |-> ciOf(n), last |-> last]

SizeEffectIdle ==
    [mounted |-> FALSE, n |-> 0, showCI |-> FALSE, ci |-> [low |-> 0, high |-> 0],
     last |-> "none"]

\* The range input: min 4, max 150.
RangeValues == 4..150

\* What the number field can hold when its onChange fires: nothing that
\* parses (Number gives 0 or NaN), or a number.
FieldValues ==
    {[parses |-> FALSE, number |-> 0]}
        \cup {[parses |-> TRUE, number |-> v] : v \in {-5, 0, 3, 4, 9, 50, 150, 499, 500, 501, 1000}}

\* Math.max(4, Math.min(500, Number(e.target.value) || 4))
clampField(value) ==
    LET number == IF value.parses /\ value.number # 0 THEN value.number ELSE 4
    IN  Max(4, Min(500, number))

\* SampleSizeEffect is mounted: useState(9), useState(false).
MountSizeEffect ==
    /\ ~sizeEffect.mounted
    /\ sizeEffect' = sizeEffectState(9, FALSE, "mount")
    /\ UNCHANGED <<deckVars, sampling, trial, labVars, poisson, distZoo, bus, highlight>>

\* Faulty variant of SlideTo: the slider leaves the interval on display.
SlideTo_keepsCI(v) ==
    /\ sizeEffect.mounted
    /\ v # sizeEffect.n
    /\ sizeEffect' = sizeEffectState(v, sizeEffect.showCI, "range")
    /\ UNCHANGED <<deckVars, sampling, trial, labVars, poisson, distZoo, bus, highlight>>

\* The slider is moved: setN(Number(e.target.value)); setShowCI(false).
SlideTo(v) ==
    /\ sizeEffect.mounted
    /\ v # sizeEffect.n
    /\ sizeEffect' = sizeEffectState(v, FALSE, "range")
    /\ UNCHANGED <<deckVars, sampling, trial, labVars, poisson, distZoo, bus, highlight>>

\* The number field is edited: setN(clamped); setShowCI(false).
TypeNumber(value) ==
    /\ sizeEffect.mounted
    /\ sizeEffect' = sizeEffectState(clampField(value), FALSE, "number")
    /\ UNCHANGED <<deckVars, sampling, trial, labVars, poisson, distZoo, bus, highlight>>

\* The button, which reads "Calculate CI" or "CI Shown": setShowCI(true).
CalculateCI ==
    /\ sizeEffect.mounted
    /\ sizeEffect' = sizeEffectState(sizeEffect.n, TRUE, "calculate")
    /\ UNCHANGED <<deckVars, sampling, trial, labVars, poisson, distZoo, bus, highlight>>

\* The slide is left.
LeaveSizeEffect ==
    /\ sizeEffect.mounted
    /\ sizeEffect' = SizeEffectIdle
    /\ UNCHANGED <<deckVars, sampling, trial, labVars, poisson, distZoo, bus, highlight>>

\* ------------------------------------------------------- RandomVariable
\* What z = Math.sqrt(-2 * Math.log(u1)) * Math.cos(2 * Math.PI * u2) can
\* be with u1 = Math.random(): a finite value, here in steps of 0.05 and in
\* units of 1/SCALE, up to the 8.57 that the least positive u1 (2^-53)
\* gives, or an infinite one when u1 is 0.
NormalOutcomes ==
    {[kind |-> "finite", v |-> (5 * i * SCALE) \div 100] : i \in -171..171}
        \cup {[kind |-> "Infinity", v |-> 0], [kind |-> "-Infinity", v |-> 0]}

\* Math.round(x / SCALE) of a value in units of 1/SCALE: the nearest
\* integer, halves upwards.
RoundScaled(x) ==
    IF x + SCALE \div 2 >= 0 THEN (2 * x + SCALE) \div (2 * SCALE)
    ELSE -((-(2 * x + SCALE) + 2 * SCALE - 1) \div (2 * SCALE))

\* const minutesPast8 = Math.round(50 + z * 10)
minutesPast8(z) ==
    IF z.kind = "finite" THEN [kind |-> "finite", v |-> RoundScaled(50 * SCALE + z.v * 10)]
    ELSE [kind |-> z.kind, v |-> 0]

Digit(d) ==
    CASE d = 0 -> "0" [] d = 1 -> "1" [] d = 2 -> "2" [] d = 3 -> "3" [] d = 4 -> "4"
      [] d = 5 -> "5" [] d = 6 -> "6" [] d = 7 -> "7" [] d = 8 -> "8" [] d = 9 -> "9"

RECURSIVE Digits(_)
Digits(m) == IF m < 10 THEN <<Digit(m)>> ELSE Append(Digits(m \div 10), Digit(m % 10))

\* Number.prototype.toString, as a sequence of characters; Infinity is
\* written as the one word.
toString(m) ==
    IF m.kind = "finite"
    THEN (IF m.v < 0 THEN <<"-">> \o Digits(-m.v) ELSE Digits(m.v))
    ELSE IF m.kind = "Infinity" THEN <<"Infinity">>
    ELSE <<"-", "Infinity">>

\* text.padStart(2, '0'), the word Infinity being longer than two characters.
padStart2(text) == IF Len(text) < 2 /\ text # <<"Infinity">> THEN <<"0">> \o text ELSE text

\* if (minutesPast8 < 60) time = `8:${...}` else time = `9:${minutesPast8 - 60 ...}`
timeString(m) ==
    IF m.kind = "-Infinity" \/ (m.kind = "finite" /\ m.v < 60)
    THEN [hour |-> "8", minutes |-> padStart2(toString(m))]
    ELSE [hour |-> "9",
          minutes |-> padStart2(toString(IF m.kind = "finite"
                                         THEN [m EXCEPT !.v = @ - 60] ELSE m))]

NoTime == [hour |-> "null", minutes |-> << >>]

BusIdle == [mounted |-> FALSE, isWaiting |-> FALSE, arrivalTime |-> NoTime, history |-> << >>]

\* RandomVariable is mounted: useState(null), useState(false), useState([]).
MountBus ==
    /\ ~bus.mounted
    /\ bus' = [BusIdle EXCEPT !.mounted = TRUE]
    /\ UNCHANGED <<deckVars, sampling, trial, labVars, poisson, distZoo, sizeEffect, highlight>>

\* simulateBus: the click, which does nothing while a bus is awaited.
simulateBus ==
    /\ bus.mounted
    /\ ~bus.isWaiting
    /\ Len(bus.history) < MaxArrivals
    /\ bus' = [bus EXCEPT !.isWaiting = TRUE, !.arrivalTime = NoTime]
    /\ UNCHANGED <<deckVars, sampling, trial, labVars, poisson, distZoo, sizeEffect, highlight>>

\* The setTimeout callback of simulateBus, with the z it draws.
BusArrives(z) ==
    /\ bus.mounted
    /\ bus.isWaiting
    /\ LET time == timeString(minutesPast8(z))
       IN  bus' = [bus EXCEPT !.arrivalTime = time,
                              !.history = SubSeq(<<time>> \o @, 1, Min(Len(@) + 1, 8)),
                              !.isWaiting = FALSE]
    /\ UNCHANGED <<deckVars, sampling, trial, labVars, poisson, distZoo, sizeEffect, highlight>>

\* The slide is left.
LeaveBus ==
    /\ bus.mounted
    /\ bus' = BusIdle
    /\ UNCHANGED <<deckVars, sampling, trial, labVars, poisson, distZoo, sizeEffect, highlight>>

\* ------------------------------------------------- CentralLimitTheorem
\* An exact fraction num / den, den > 0.
Frac(num, den) == [num |-> num, den |-> den]

FracEq(a, b) == a.num * b.den = b.num * a.den

discreteDists == <<"uniform", "bernoulli", "binomial", "poisson">>

continuousDists == <<"normal", "exponential", "uniform_cont">>

DistKeys == Range(discreteDists) \cup Range(continuousDists)

\* What sample() of each distribution draws from, read off its code:
\* Math.floor(Math.random() * 6) + 1; Math.random() < 0.6; 10 draws with
\* Math.random() < 0.5; Knuth's algorithm with lambda = 4; the Box-Muller z;
\* -Math.log(1 - Math.random()); Math.random().
samplerOf(key) ==
    CASE key = "uniform" -> [family |-> "DiscreteUniform", k |-> 6]
      [] key = "bernoulli" -> [family |-> "Bernoulli", p |-> Frac(6, 10)]
      [] key = "binomial" -> [family |-> "Binomial", n |-> 10, p |-> Frac(5, 10)]
      [] key = "poisson" -> [family |-> "Poisson", lambda |-> 4]
      [] key = "normal" -> [family |-> "Normal", mu |-> 0, sigma |-> 1]
      [] key = "exponential" -> [family |-> "Exponential", lambda |-> 1]
      [] key = "uniform_cont" -> [family |-> "ContinuousUniform", a |-> 0, b |-> 1]

\* The type each distribution of CentralLimitTheorem declares.
cltDistType(key) ==
    IF key \in {"uniform", "bernoulli", "binomial", "poisson"} THEN "discrete"
    ELSE "continuous"

\* getMean(): 3.5, 0.6, 5, 4, 0, 1, 0.5
getMean(key) ==
    CASE key = "uniform" -> Frac(35, 10)
      [] key = "bernoulli" -> Frac(6, 10)
      [] key = "binomial" -> Frac(5, 1)
      [] key = "poisson" -> Frac(4, 1)
      [] key = "normal" -> Frac(0, 1)
      [] key = "exponential" -> Frac(1, 1)
      [] key = "uniform_cont" -> Frac(5, 10)

\* Faulty variant of getStdSquared: Poisson reports lambda as its std.
getStdSquared_poissonLambda(key) ==
    CASE key = "uniform" -> Frac(35, 12)
      [] key = "bernoulli" -> Frac(6 * 4, 10 * 10)
      [] key = "binomial" -> Frac(10 * 5 * 5, 10 * 10)
      [] key = "poisson" -> Frac(4 * 4, 1)
      [] key = "normal" -> Frac(1 * 1, 1)
      [] key = "exponential" -> Frac(1 * 1, 1)
      [] key = "uniform_cont" -> Frac(1, 12)

\* getStd(), carried as its square: Math.sqrt(35 / 12), Math.sqrt(0.6 * 0.4),
\* Math.sqrt(10 * 0.5 * 0.5), 2, 1, 1, 1 / Math.sqrt(12).
getStdSquared(key) ==
    CASE key = "uniform" -> Frac(35, 12)
      [] key = "bernoulli" -> Frac(6 * 4, 10 * 10)
      [] key = "binomial" -> Frac(10 * 5 * 5, 10 * 10)
      [] key = "poisson" -> Frac(2 * 2, 1)
      [] key = "normal" -> Frac(1 * 1, 1)
      [] key = "exponential" -> Frac(1 * 1, 1)
      [] key = "uniform_cont" -> Frac(1, 12)

\* The sample-size slider of CentralLimitTheorem: min 2, max 50.
CLTSizes == 2..50

\* Faulty variant of resetEffect: the means are never cleared.
resetEffect_never(prevDist, dist, sampleMeans) == sampleMeans

\* useEffect(() => setSampleMeans([]), [dist]): after a render in which dist
\* has changed the recorded means are cleared.
resetEffect(prevDist, dist, sampleMeans) ==
    IF dist # prevDist THEN << >> ELSE sampleMeans

\* The timer effect, which depends on [isRunning, takeSample, speed], with
\* takeSample a useCallback on [n, currentDist]: while running, a single
\* setInterval whose takeSample holds the n and the distribution of the
\* render that created it.
timerEffectCLT(isRunning, n, dist) ==
    IF isRunning THEN {[n |-> n, dist |-> dist]} ELSE {}

\* CentralLimitTheorem as rendered, with what its useMemo derives from the
\* distribution: theoreticalMean = getMean() and sigma = getStd().  A
\* recorded mean is kept as the n and the distribution of the sample it is
\* the mean of.
cltState(selectedType, dist, n, isRunning, sampleMeans) ==
    [selectedType |-> selectedType, dist |-> dist, n |-> n,
     theoreticalMean |-> getMean(dist), sigmaSquared |-> getStdSquared(dist),
     isRunning |-> isRunning, sampleMeans |-> sampleMeans,
     timers |-> timerEffectCLT(isRunning, n, dist)]

ZooIdle ==
    [selectedType |-> "none", dist |-> "none", n |-> 0,
     theoreticalMean |-> Frac(0, 1), sigmaSquared |-> Frac(0, 1),
     isRunning |-> FALSE, sampleMeans |-> << >>, timers |-> {}]

\* CentralLimitTheorem is mounted: useState(5), "discrete", "uniform", false, [].
MountZoo ==
    /\ zoo.dist = "none"
    /\ zoo' = cltState("discrete", "uniform", 5, FALSE, << >>)
    /\ UNCHANGED <<deckVars, sampling, trial, population, batch, normal, slideVars>>

\* setDist(d) with the render and the effects that follow it.
setDist(selectedType, d) ==
    cltState(selectedType, d, zoo.n, zoo.isRunning,
             resetEffect(zoo.dist, d, zoo.sampleMeans))

\* The Discrete / Continuous toggle: it selects the first distribution of the type.
SelectType(type) ==
    /\ zoo.dist # "none"
    /\ zoo' = setDist(type, IF type = "discrete" THEN "uniform" ELSE "normal")
    /\ UNCHANGED <<deckVars, sampling, trial, population, batch, normal, slideVars>>

\* A button of the distribution list, which shows the selected type only.
SelectDist(d) ==
    /\ zoo.dist # "none"
    /\ d \in Range(IF zoo.selectedType = "discrete" THEN discreteDists ELSE continuousDists)
    /\ zoo' = setDist(zoo.selectedType, d)
    /\ UNCHANGED <<deckVars, sampling, trial, population, batch, normal, slideVars>>

\* The sample-size slider: setN(...); setSampleMeans([]).
SetN(n) ==
    /\ zoo.dist # "none"
    /\ n # zoo.n
    /\ zoo' = cltState(zoo.selectedType, zoo.dist, n, zoo.isRunning, << >>)
    /\ UNCHANGED <<deckVars, sampling, trial, population, batch, normal, slideVars>>

\* Run / Pause.
ToggleRunningCLT ==
    /\ zoo.dist # "none"
    /\ zoo' = cltState(zoo.selectedType, zoo.dist, zoo.n, ~zoo.isRunning, zoo.sampleMeans)
    /\ UNCHANGED <<deckVars, sampling, trial, population, batch, normal, slideVars>>

\* Reset.
ResetCLT ==
    /\ zoo.dist # "none"
    /\ zoo' = cltState(zoo.selectedType, zoo.dist, zoo.n, zoo.isRunning, << >>)
    /\ UNCHANGED <<deckVars, sampling, trial, population, batch, normal, slideVars>>

\* One firing of the interval timer: takeSample draws n values from the
\* distribution its closure holds and appends their mean.
takeSampleCLT ==
    /\ zoo.dist # "none"
    /\ Len(zoo.sampleMeans) < MaxMeans
    /\ \E closure \in zoo.timers :
          zoo' = [zoo EXCEPT !.sampleMeans = Append(@, closure)]
    /\ UNCHANGED <<deckVars, sampling, trial, population, batch, normal, slideVars>>

\* The slide is left: the clean-up clears the timer.
LeaveZoo ==
    /\ zoo.dist # "none"
    /\ zoo' = ZooIdle
    /\ UNCHANGED <<deckVars, sampling, trial, population, batch, normal, slideVars>>

\* ------------------------------------------------------------------- Home
Keys == {"ArrowRight", "ArrowLeft", "Enter"}

\* Faulty variant of slideAfterKey: ArrowRight is not clamped at the last slide.
slideAfterKey_noClamp(prev, key) ==
    IF key = "ArrowRight" THEN prev + 1
    ELSE IF key = "ArrowLeft" THEN Max(prev - 1, 0)
    ELSE prev

slideAfterKey(prev, key) ==
    IF key = "ArrowRight" THEN Min(prev + 1, Len(SLIDES) - 1)
    ELSE IF key = "ArrowLeft" THEN Max(prev - 1, 0)
    ELSE prev

\* handleKeyDown.  A change of slide unmounts the current slide (its state is
\* dropped, its effect clean-ups run) and mounts the next one afresh.
handleKeyDown(key) ==
    /\ currentSlide' = slideAfterKey(currentSlide, key)
    /\ IF currentSlide' # currentSlide
       THEN /\ ci' = CIInitial
            /\ ciTimers' = {}
            /\ shape' = ShapeInitial
            /\ shapeLoops' = {[l EXCEPT !.attached = FALSE] : l \in shapeLoops}
            /\ conv' = ConvInitial
            /\ convLoops' = {[l EXCEPT !.attached = FALSE] : l \in convLoops}
            /\ hook' = HookInitial
       ELSE UNCHANGED <<ci, ciTimers, shapeVars, convVars, hook>>
    /\ lastOp' = [op |-> "key", cleared |-> 0]
    /\ UNCHANGED <<rng, pureVars>>

\* A key pressed by the person at the deck; a script drives a page of its own.
KeyDown(key) ==
    /\ script.driver = "none"
    /\ handleKeyDown(key)
    /\ UNCHANGED script

\* ------------------------------------------------------ the browser scripts
TOTAL_SLIDES == 15

slideCount == 11

ScriptIdle ==
    [driver |-> "none", pc |-> "idle", currentIndex |-> 0, target |-> 0,
     hookClicks |-> 0]

\* The page as page.goto leaves it: nothing has happened on it.
freshPage == lastOp.op = "init"

\* takeScreenshots opens the page: let currentSlide = 0.
LaunchScreenshots ==
    /\ script.driver = "none"
    /\ freshPage
    /\ script' = [ScriptIdle EXCEPT !.driver = "screenshots", !.pc = "main"]
    /\ UNCHANGED <<currentSlide, ciVars, shapeVars, convVars, pureVars, hook, lastOp>>

\* currentSlide = await goToSlide(page, target, currentSlide): the call,
\* which the script makes for another slide than the one it is on.
CallGoToSlide(target) ==
    /\ script.driver = "screenshots"
    /\ script.pc = "main"
    /\ target # script.currentIndex
    /\ script' = [script EXCEPT !.pc = "goToSlide", !.target = target,
                                !.hookClicks = 0]
    /\ UNCHANGED <<currentSlide, ciVars, shapeVars, convVars, pureVars, hook, lastOp>>

\* One turn of one of the two while loops of goToSlide.
GoToSlidePress ==
    /\ script.pc = "goToSlide"
    /\ script.currentIndex # script.target
    /\ IF script.currentIndex < script.target
       THEN /\ handleKeyDown("ArrowRight")
            /\ script' = [script EXCEPT !.currentIndex = @ + 1]
       ELSE /\ handleKeyDown("ArrowLeft")
            /\ script' = [script EXCEPT !.currentIndex = @ - 1]

\* goToSlide returns currentIndex.
GoToSlideReturn ==
    /\ script.pc = "goToSlide"
    /\ script.currentIndex = script.target
    /\ script' = [script EXCEPT !.pc = "main"]
    /\ UNCHANGED <<currentSlide, ciVars, shapeVars, convVars, pureVars, hook, lastOp>>

\* The button texts takeScreenshots looks for on slide 3, in its order.
HookLocators == <<"Reveal", "Show Distributions", "Show Probabilities">>

\* button:has-text(text) on a button with the given label.
hasText(label, text) ==
    \/ label = text
    \/ label = "Reveal sigma" /\ text = "Reveal"

\* The forward button of the mounted slide, if it is HookSlide.
visibleForwardButton == IF currentSlide = SLIDE_HOOK THEN forwardButton(hook) ELSE "none"

\* After goToSlide(page, 3, ...): the next of the three
\* "if (await btn.isVisible()) await btn.click()" blocks.
ScriptHookClick ==
    /\ script.driver = "screenshots"
    /\ script.pc = "main"
    /\ script.target = 3
    /\ script.hookClicks < Len(HookLocators)
    /\ script' = [script EXCEPT !.hookClicks = @ + 1]
    /\ IF hasText(visibleForwardButton, HookLocators[script.hookClicks + 1])
       THEN /\ hook' = nextStep(hook)
            /\ lastOp' = [op |-> "nextStep", cleared |-> 0]
       ELSE UNCHANGED <<hook, lastOp>>
    /\ UNCHANGED <<currentSlide, ciVars, shapeVars, convVars, pureVars>>

\* The audit opens the page: for (let i = 0; ...).
LaunchAudit ==
    /\ script.driver = "none"
    /\ freshPage
    /\ script' = [ScriptIdle EXCEPT !.driver = "audit", !.pc = "loop"]
    /\ UNCHANGED <<currentSlide, ciVars, shapeVars, convVars, pureVars, hook, lastOp>>

\* getByRole('button', { name: /Next Step/i }) on the mounted slide: no slide
\* labels a button so.
nextBtnVisible == hasText(visibleForwardButton, "Next Step")

\* One iteration of the audit loop as far as the deck is concerned: at i = 2
\* three clicks on the Next Step button if it is visible, then ArrowRight.
\* currentIndex is the loop counter i.
AuditIteration ==
    /\ script.driver = "audit"
    /\ script.pc = "loop"
    /\ script.currentIndex < slideCount
    /\ script' = [script EXCEPT !.currentIndex = @ + 1,
                                !.hookClicks = IF script.currentIndex = 2 /\ nextBtnVisible
                                               THEN 3 ELSE @]
    /\ handleKeyDown("ArrowRight")

\* The loop ends.
AuditDone ==
    /\ script.driver = "audit"
    /\ script.pc = "loop"
    /\ script.currentIndex = slideCount
    /\ script' = [script EXCEPT !.pc = "done"]
    /\ UNCHANGED <<currentSlide, ciVars, shapeVars, convVars, pureVars, hook, lastOp>>

\* ---------------------------------------------------------- specification
Init ==
    /\ currentSlide = 0
    /\ rng \in 0..(RngPeriod - 1)
    /\ ci = CIInitial
    /\ ciTimers = {}
    /\ shape = ShapeInitial
    /\ shapeLoops = {}
    /\ conv = ConvInitial
    /\ convLoops = {}
    /\ sampling = SamplingIdle
    /\ trial = TrialIdle
    /\ lastOp = [op |-> "init", cleared |-> 0]
    /\ hook = HookInitial
    /\ script = ScriptIdle
    /\ population = PopulationIdle
    /\ batch = BatchIdle
    /\ normal = NormalIdle
    /\ zoo = ZooIdle
    /\ poisson = PoissonIdle
    /\ highlight = HighlightIdle
    /\ distZoo = DistZooIdle
    /\ sizeEffect = SizeEffectIdle
    /\ bus = BusIdle

NextKey == \E key \in Keys : KeyDown(key)

NextCI ==
    \/ takeSample
    \/ ToggleRunning
    \/ ResetClick
    \/ \E n \in SliderPositions : ChangeSampleSize(n)

NextShape ==
    \/ LoadStarsShape
    \/ runSimulationShape
    \/ StepShape

NextConvergence ==
    \/ LoadStarsConvergence
    \/ runSimulationConvergence
    \/ StepConvergence

NextHook ==
    \/ ClickForward
    \/ ClickBack

NextScript ==
    \/ LaunchScreenshots
    \/ \E target \in 0..(TOTAL_SLIDES - 1) : CallGoToSlide(target)
    \/ GoToSlidePress
    \/ GoToSlideReturn
    \/ ScriptHookClick
    \/ LaunchAudit
    \/ AuditIteration
    \/ AuditDone

Next ==
    \/ NextKey
    \/ NextHook
    \/ NextCI
    \/ NextShape
    \/ NextConvergence

\* The whole deck.
Spec == Init /\ [][Next]_vars

\* The deck with only the ConfidenceIntervals slide operated.
SpecCI == Init /\ [][NextKey \/ NextCI]_vars

\* The deck with only the two convergence slides operated.
SpecConv == Init /\ [][NextKey \/ NextShape \/ NextConvergence]_vars

\* The two convergence slides with their timers: a pending runStep is called
\* in the end (requestAnimationFrame, then setTimeout).
SpecConvFair ==
    /\ SpecConv
    /\ WF_vars(StepShape)
    /\ WF_vars(StepConvergence)

\* The deck with the ConfidenceIntervals and DistributionShape slides
\* operated.  A closure of an unmounted DistributionShape has one call left,
\* which returns at the abort check without writing anything; the sampling
\* timer is followed once those calls have run off.
NextReset ==
    \/ NextKey
    \/ (shapeLoops = {} /\ takeSample)
    \/ ToggleRunning
    \/ ResetClick
    \/ \E n \in SliderPositions : ChangeSampleSize(n)
    \/ NextShape

SpecReset == Init /\ [][NextReset]_vars

\* The sampling loops over the star population, followed draw by draw.
NextSample ==
    \/ \E i \in 1..Len(SAMPLE_SIZES_Shape) : BeginRunStarsSim(SAMPLE_SIZES_Shape[i])
    \/ \E i \in 1..Len(SAMPLE_SIZES_Convergence) :
          BeginRunForSampleSize(SAMPLE_SIZES_Convergence[i])
    \/ BeginTakeSample
    \/ DrawStar
    \/ DrawHighlighted
    \/ LeaveSample

SpecSample == Init /\ [][NextSample]_vars

\* The trial-count policy applied to every sample size up to MaxTrialN.
NextTrials ==
    \/ \E slide \in {"DistributionShape", "EstimatorConvergence"}, n \in 1..MaxTrialN :
          RunBatch(slide, n)
    \/ BatchDone

SpecTrials == Init /\ [][NextTrials]_vars

\* The deck at start-up when no slide draws from the generator `rng': the
\* draws of the loops below are chosen step by step.
InitLab == Init /\ rng = 0

\* Populations built from every catalog of at most MaxCatalog stars.
NextPopulation ==
    \/ \E slide \in PopulationSlides, catalog \in Catalogs : LoadCatalog(slide, catalog)
    \/ RunStepOnPopulation
    \/ LeavePopulation

SpecPopulation == InitLab /\ [][NextPopulation]_vars

\* Trial batches of the three simulations, followed trial by trial.
NextBatchFrom(sizes) ==
    \/ \E sim \in BatchSims, n \in sizes, trials \in 1..MaxTrials :
          BeginBatch(sim, n, trials)
    \/ BatchTrial
    \/ BatchReturn
    \/ LeaveBatch

\* The Box-Muller calls of the deck.
NextNormal ==
    \/ \E site \in NormalSites : BeginNormal(site)
    \/ DrawNormal
    \/ LeaveNormal

SpecNormal == InitLab /\ [][NextNormal]_vars

\* The distribution picker of CentralLimitTheorem.
NextZoo ==
    \/ MountZoo
    \/ \E type \in {"discrete", "continuous"} : SelectType(type)
    \/ \E d \in DistKeys : SelectDist(d)
    \/ \E n \in CLTSizes : SetN(n)
    \/ ToggleRunningCLT
    \/ ResetCLT
    \/ takeSampleCLT
    \/ LeaveZoo

\* The deck's navigation: by a person, or by one of the two scripts.
SpecNav == InitLab /\ [][NextKey \/ NextHook \/ NextScript]_vars

NextHighlight ==
    \/ \E numStars \in HighlightCatalogSizes, seed \in 0..(PrngPeriod - 1), step \in PrngSteps :
          BeginHighlight(numStars, seed, step)
    \/ HighlightTurn
    \/ HighlightDone
    \/ LeaveHighlight

\* A synchronous loop: a turn that can be taken is taken.
SpecHighlight ==
    InitLab /\ [][NextHighlight]_vars /\ WF_vars(HighlightTurn) /\ WF_vars(HighlightDone)

NextPoisson ==
    \/ BeginPoisson
    \/ \E j \in UniformDraws : PoissonTurn(j)
    \/ LeavePoisson

\* A synchronous loop: a turn that can be taken is taken.
SpecPoisson ==
    InitLab /\ [][NextPoisson]_vars /\ WF_vars(\E j \in UniformDraws : PoissonTurn(j))

NextSizeEffect ==
    \/ MountSizeEffect
    \/ \E v \in RangeValues : SlideTo(v)
    \/ \E value \in FieldValues : TypeNumber(value)
    \/ CalculateCI
    \/ LeaveSizeEffect

SpecSizeEffect == InitLab /\ [][NextSizeEffect]_vars

NextBus ==
    \/ MountBus
    \/ simulateBus
    \/ \E z \in NormalOutcomes : BusArrives(z)
    \/ LeaveBus

SpecBus == InitLab /\ [][NextBus]_vars

NextDistZoo ==
    \/ MountDistZoo
    \/ \E type \in {"discrete", "continuous"} : SelectTypeDistZoo(type)
    \/ \E key \in DistKeys : SelectDistDistZoo(key)
    \/ ToggleExamples
    \/ LeaveDistZoo

\* The two slides with a distribution picker.
SpecPickers == InitLab /\ [][NextDistZoo \/ NextZoo]_vars

SpecZoo == InitLab /\ [][NextZoo]_vars

\* The batches as the slides call them: samples of two values and more.
SpecBatch == InitLab /\ [][NextBatchFrom(2..MaxSampleN)]_vars

\* The batch functions on every sample size from 1 on.
SpecSampleStats == InitLab /\ [][NextBatchFrom(1..MaxSampleN)]_vars

TypeOK ==
    /\ currentSlide \in 0..(Len(SLIDES) - 1)
    /\ rng \in 0..(RngPeriod - 1)
    /\ Len(ci.intervals) <= KEEP_PREVIOUS + 1
    /\ Cardinality(ciTimers) <= 1
\* ------------------------------------------------- claims: CoverageTracker
IsPrefix(a, b) == Len(a) <= Len(b) /\ SubSeq(b, 1, Len(a)) = a

Last(a) == a[Len(a)]

missedCount(intervals) == Len(intervals) - capturedCount(intervals)

\* C1: every interval held by the ConfidenceIntervals slide has
\* lower = mean - 2*SE and upper = mean + 2*SE for SE = POP_STD/sqrt(sampleSize),
\* and is flagged captured exactly when lower <= TRUE_MEAN <= upper, both
\* ends inclusive.
C1_IntervalFromMeanAndSE ==
    LET se == SE(ci.sampleSize)
        mu == TRUE_MEAN * SCALE
    IN  \A i \in 1..Len(ci.intervals) :
           LET x == ci.intervals[i]
           IN  /\ x.lower = x.mean - CI_MULTIPLIER * se
               /\ x.upper = x.mean + CI_MULTIPLIER * se
               /\ x.captured = (x.lower <= mu /\ mu <= x.upper)

\* An interval whose lower end is exactly the true mean is held (and counts
\* as captured), next to one that misses the true mean.
C1_Witness ==
    /\ \E i \in 1..Len(ci.intervals) :
          ci.intervals[i].lower = TRUE_MEAN * SCALE /\ ci.intervals[i].captured
    /\ \E i \in 1..Len(ci.intervals) : ~ci.intervals[i].captured

\* C2: the tracker is append-only.  Every takeSample leaves the intervals
\* recorded before it in place and adds exactly one after them; recorded
\* intervals disappear only through a reset (Reset button, sample-size
\* change) or with the slide itself.
C2_AppendOnly ==
    [][ /\ (lastOp'.op = "takeSample" =>
               ci'.intervals = Append(ci.intervals, Last(ci'.intervals)))
        /\ (~IsPrefix(ci.intervals, ci'.intervals) =>
               lastOp'.op \in {"reset", "resize", "key"}) ]_vars

\* C7: the tracker is Empty (no interval, captureRate 0) or Accumulating (at
\* least one interval); a record ends in Accumulating, a reset ends in Empty,
\* and there is no terminal state: while the slide is shown the Reset button
\* and the Run/Pause button always respond, and a running timer can always
\* record.
C7_TrackerStates ==
    /\ (Len(ci.intervals) = 0 => captureRate(ci.intervals) = 0)
    /\ (lastOp.op = "takeSample" => Len(ci.intervals) >= 1)
    /\ (lastOp.op \in {"reset", "resize"} => Len(ci.intervals) = 0)
    /\ (currentSlide = SLIDE_CI =>
           /\ ENABLED ResetClick
           /\ ENABLED ToggleRunning
           /\ (ci.isRunning => ENABLED takeSample)
           /\ (~ci.isRunning => ciTimers = {}))

\* A record has just been made on a full window, and the tracker is still
\* Accumulating.
C7_Witness ==
    /\ lastOp.op = "takeSample"
    /\ Len(ci.intervals) = KEEP_PREVIOUS + 1
    /\ ENABLED takeSample /\ ENABLED ResetClick

\* C8 as stated: captureRate is exactly 100 * captured / total.
C8_RateExact ==
    LET c == capturedCount(ci.intervals)
        t == Len(ci.intervals)
    IN  /\ (t > 0 => captureRate(ci.intervals) * t = 1000 * c)
        /\ (t = 0 => captureRate(ci.intervals) = 0)

\* C8 (amended): captureRate is 100 * captured / total rounded to one
\* decimal place (so within 0.05 of it) when an interval is held and 0 when
\* none is; 0 <= captured <= total, 0 <= captureRate <= 100 and
\* captured + missed = total.
C8_RateRounded ==
    LET c == capturedCount(ci.intervals)
        t == Len(ci.intervals)
        r == captureRate(ci.intervals)
        d == r * t - 1000 * c
    IN  /\ (t > 0 => 2 * d <= t /\ 2 * d > -t)
        /\ (t = 0 => r = 0)
        /\ c = Cardinality({i \in 1..t : ci.intervals[i].captured = TRUE})
        /\ 0 <= c /\ c <= t
        /\ 0 <= r /\ r <= 1000
        /\ c + missedCount(ci.intervals) = t

\* Some but not all of the held intervals captured the mean, and the rate
\* shown is a rounded one.
C8_Witness ==
    LET c == capturedCount(ci.intervals)
        t == Len(ci.intervals)
    IN  /\ 0 < c /\ c < t
        /\ captureRate(ci.intervals) * t # 1000 * c
\* ------------------------------------------------ claims: convergence runs
Front(a) == SubSeq(a, 1, Len(a) - 1)

IsSuffix(a, b) == Len(a) <= Len(b) /\ SubSeq(b, Len(b) - Len(a) + 1, Len(b)) = a

SeriesComplete ==
    /\ Len(shape.results.uniform) = Len(shape.results.stars)
    /\ Len(conv.results.meanErrors) = Len(conv.results.stdErrors)
    /\ \A l \in shapeLoops : Len(l.newResults.uniform) = Len(l.newResults.stars)
    /\ \A l \in convLoops : Len(l.newMeanErrors) = Len(l.newStdErrors)

\* C3: on every slide that generates a convergence curve, once the slide is
\* unmounted (the cancellation signal) the run appends no further point: the
\* curve it was building keeps exactly the points of the steps completed
\* before, and every point has its value in both series.
C3_CancelStopsRun ==
    /\ []SeriesComplete
    /\ [][ /\ \A l \in shapeLoops : ~l.attached =>
                 \A m \in shapeLoops' : m.id = l.id => m.newResults = l.newResults
           /\ \A l \in convLoops : ~l.attached =>
                 \A m \in convLoops' : m.id = l.id =>
                    /\ m.newMeanErrors = l.newMeanErrors
                    /\ m.newStdErrors = l.newStdErrors ]_vars

\* C4: while a convergence slide stays mounted its published curve either is
\* left alone, or gets one point appended (one value in each series, the
\* earlier points untouched), or, when a run is started, becomes the empty
\* curve followed by that run's first point; both series always have the same
\* length.
C4_CurveOnlyGrows ==
    /\ []SeriesComplete
    /\ [][ currentSlide' = currentSlide =>
              /\ LET r == shape.results
                     q == shape'.results
                 IN  \/ q = r
                     \/ /\ q.uniform = Append(r.uniform, Last(q.uniform))
                        /\ q.stars = Append(r.stars, Last(q.stars))
                     \/ /\ lastOp'.op = "runSimulation"
                        /\ Len(q.uniform) = 1 /\ Len(q.stars) = 1
              /\ LET r == conv.results
                     q == conv'.results
                 IN  \/ q = r
                     \/ /\ q.meanErrors = Append(r.meanErrors, Last(q.meanErrors))
                        /\ q.stdErrors = Append(r.stdErrors, Last(q.stdErrors))
                     \/ /\ lastOp'.op = "runSimulation"
                        /\ Len(q.meanErrors) = 1 /\ Len(q.stdErrors) = 1 ]_vars

\* A run was started over the complete curve of the run before it.
C4_Witness ==
    /\ currentSlide = SLIDE_SHAPE
    /\ lastOp.op = "runSimulation"
    /\ lastOp.cleared = Len(SAMPLE_SIZES_Shape)
    /\ Len(shape.results.uniform) = 1

StrictlyIncreasing(a) == \A i \in 1..(Len(a) - 1) : a[i] < a[i + 1]

ComputedFor(points, schedule) ==
    /\ Len(points) <= Len(schedule)
    /\ \A i \in 1..Len(points) : points[i].n = schedule[i]

\* C5: the i-th point of every curve (published, or held by a running
\* closure) was computed for the i-th entry of its slide's sample-size
\* schedule, and both schedules are strictly increasing; so every curve is
\* ordered by strictly increasing n, in schedule order.
C5_ScheduleOrder ==
    /\ StrictlyIncreasing(SAMPLE_SIZES_Shape)
    /\ StrictlyIncreasing(SAMPLE_SIZES_Convergence)
    /\ ComputedFor(shape.results.uniform, SAMPLE_SIZES_Shape)
    /\ ComputedFor(shape.results.stars, SAMPLE_SIZES_Shape)
    /\ ComputedFor(conv.results.meanErrors, SAMPLE_SIZES_Convergence)
    /\ ComputedFor(conv.results.stdErrors, SAMPLE_SIZES_Convergence)
    /\ \A l \in shapeLoops :
          /\ ComputedFor(l.newResults.uniform, SAMPLE_SIZES_Shape)
          /\ ComputedFor(l.newResults.stars, SAMPLE_SIZES_Shape)
    /\ \A l \in convLoops :
          /\ ComputedFor(l.newMeanErrors, SAMPLE_SIZES_Convergence)
          /\ ComputedFor(l.newStdErrors, SAMPLE_SIZES_Convergence)
    /\ StrictlyIncreasing([i \in 1..Len(shape.results.stars) |-> shape.results.stars[i].n])
    /\ StrictlyIncreasing([i \in 1..Len(conv.results.stdErrors) |->
                              conv.results.stdErrors[i].n])

\* A run of DistributionShape has been seen to its last schedule entry.
C5_Witness ==
    /\ Len(shape.results.uniform) = Len(SAMPLE_SIZES_Shape)
    /\ shape.results.stars[Len(SAMPLE_SIZES_Shape)].n = 500
    /\ ~shape.isRunning

\* C6: a reset leaves nothing behind.  Right after the Reset button or a
\* change of the sample size the tracker holds no interval and no captured
\* interval; right after a convergence run is (re)started the curve is the
\* empty curve plus that run's first step; and an interval that is held was
\* either held before the step or built by it, so nothing cleared returns.
C6_ResetLeavesNothing ==
    /\ [](lastOp.op \in {"reset", "resize"} =>
             /\ Len(ci.intervals) = 0
             /\ capturedCount(ci.intervals) = 0
             /\ captureRate(ci.intervals) = 0)
    /\ [](lastOp.op = "runSimulation" /\ currentSlide = SLIDE_SHAPE =>
             /\ shape.results = [uniform |-> <<runUniformSim(SAMPLE_SIZES_Shape[1])>>,
                                 stars |-> <<runStarsSim(SAMPLE_SIZES_Shape[1])>>]
             /\ shape.animationStep = 1)
    /\ [][ \/ ci'.intervals = ci.intervals
           \/ ci'.intervals = << >>
           \/ /\ lastOp'.op = "takeSample"
              /\ IsSuffix(Front(ci'.intervals), ci.intervals) ]_vars

\* The Reset button was pressed on a full window while the timer runs.
C6_Witness ==
    /\ lastOp.op = "reset"
    /\ lastOp.cleared = KEEP_PREVIOUS + 1
    /\ ci.isRunning
    /\ Len(ci.intervals) = 0
\* ------------------------------------------------------- claims: sampling
InPopulation(indices) == \A i \in 1..Len(indices) : indices[i] \in 0..(NumStars - 1)

\* C9 as stated: in runStarsSim, runForSampleSize and
\* PopulationSample.takeSample alike every draw picks an index of 0..N-1 and
\* is kept whatever was drawn before it.
C9_AllWithReplacement ==
    sampling.op # "idle" =>
       /\ InPopulation(sampling.indices)
       /\ sampling.indices = sampling.drawn

\* C9 (amended): runStarsSim and runForSampleSize sample with replacement:
\* every draw is an index of 0..N-1 and is kept whatever was drawn before it.
\* PopulationSample.takeSample keeps a draw only if its index was not drawn
\* before, so its indices are pairwise distinct members of 0..N-1.
C9_ReplacementInSimsOnly ==
    /\ InPopulation(sampling.indices)
    /\ (sampling.op \in {"runStarsSim", "runForSampleSize"} =>
           sampling.indices = sampling.drawn)
    /\ (sampling.op = "takeSample" =>
           /\ Cardinality(Range(sampling.indices)) = Len(sampling.indices)
           /\ Range(sampling.indices) = Range(sampling.drawn)
           /\ Len(sampling.indices) <= Len(sampling.drawn))

\* A runStarsSim sample holds the same star twice.
C9_Witness ==
    /\ sampling.op = "runStarsSim"
    /\ \E i, j \in 1..Len(sampling.indices) : i # j /\ sampling.indices[i] = sampling.indices[j]

Schedule(slide) ==
    IF slide = "DistributionShape" THEN Range(SAMPLE_SIZES_Shape)
    ELSE Range(SAMPLE_SIZES_Convergence)

TrialsAsClaimed(n, trials) ==
    LET target == 1000000 \div n
    IN  /\ 1000 <= trials /\ trials <= 100000
        /\ (1000 <= target /\ target <= 100000 => trials = target)
        /\ (10 <= n /\ n <= 1000 => 1000000 - n < trials * n /\ trials * n <= 1000000)

\* C10 as stated: for every sample size n of any convergence run the number
\* of trials is in [1000, 100000] and is floor(1000000 / n) when that is in
\* the range, so trials * n is in (1000000 - n, 1000000] for 10 <= n <= 1000.
C10_TrialsEverywhere ==
    trial.slide # "none" /\ trial.n \in Schedule(trial.slide) =>
       TrialsAsClaimed(trial.n, trial.trials)

\* C10 (amended): that holds in DistributionShape, for every n from 1 on (so
\* for its schedule); EstimatorConvergence runs TRIALS_PER_SIZE = 500 trials
\* for every n.
C10_TrialsInShapeOnly ==
    /\ (trial.slide = "DistributionShape" => TrialsAsClaimed(trial.n, trial.trials))
    /\ (trial.slide = "EstimatorConvergence" => trial.trials = 500)

\* A DistributionShape batch at a scheduled size where the clamp is idle.
C10_Witness ==
    /\ trial.slide = "DistributionShape"
    /\ trial.n = 300
    /\ trial.trials = 3333
\* ------------------------------------------------- claims: one run at a time
liveLoops(loops) == {l \in loops : l.attached}

\* C11: at most one run loop works on the curve of a mounted convergence
\* slide.  A run loop of the mounted instance is pending exactly while
\* isRunning is true, there is never more than one, the published curve is
\* that loop's own array, and while isRunning is true the Run button starts
\* no second run.
C11_OneRunPerCurve ==
    /\ Cardinality(liveLoops(shapeLoops)) <= 1
    /\ Cardinality(liveLoops(convLoops)) <= 1
    /\ shape.isRunning = (liveLoops(shapeLoops) # {})
    /\ conv.isRunning = (liveLoops(convLoops) # {})
    /\ \A l \in liveLoops(shapeLoops) : l.newResults = shape.results
    /\ \A l \in liveLoops(convLoops) :
          /\ l.newMeanErrors = conv.results.meanErrors
          /\ l.newStdErrors = conv.results.stdErrors
    /\ (shape.isRunning => ~ENABLED runSimulationShape)
    /\ (conv.isRunning => ~ENABLED runSimulationConvergence)

\* A run of DistributionShape is some steps in, with the data loaded and the
\* slide mounted: everything but isRunning would let the button start a run.
C11_Witness ==
    /\ currentSlide = SLIDE_SHAPE
    /\ shape.starLoaded
    /\ shape.isRunning
    /\ shape.animationStep >= 2
    /\ staleLoops = {}
    /\ liveLoops(shapeLoops) # {}
\* ------------------------------------------------- claims: a run is finite
ShapeRunDone ==
    /\ ~shape.isRunning
    /\ Len(shape.results.uniform) = Len(SAMPLE_SIZES_Shape)
    /\ Len(shape.results.stars) = Len(SAMPLE_SIZES_Shape)
    /\ shape.animationStep = Len(SAMPLE_SIZES_Shape)

ConvRunDone ==
    /\ ~conv.isRunning
    /\ Len(conv.results.meanErrors) = Len(SAMPLE_SIZES_Convergence)
    /\ Len(conv.results.stdErrors) = Len(SAMPLE_SIZES_Convergence)
    /\ conv.currentStep = Len(SAMPLE_SIZES_Convergence)

RunWithinSchedule ==
    /\ shape.animationStep = Len(shape.results.uniform)
    /\ shape.animationStep = Len(shape.results.stars)
    /\ shape.animationStep <= Len(SAMPLE_SIZES_Shape)
    /\ conv.currentStep = Len(conv.results.meanErrors)
    /\ conv.currentStep = Len(conv.results.stdErrors)
    /\ conv.currentStep <= Len(SAMPLE_SIZES_Convergence)
    /\ \A l \in shapeLoops :
          /\ l.step = Len(l.newResults.uniform)
          /\ l.step = Len(l.newResults.stars)
          /\ 1 <= l.step /\ l.step <= Len(SAMPLE_SIZES_Shape)
    /\ \A l \in convLoops :
          /\ l.step = Len(l.newMeanErrors)
          /\ l.step = Len(l.newStdErrors)
          /\ 1 <= l.step /\ l.step <= Len(SAMPLE_SIZES_Convergence)
    /\ (~shape.isRunning => shape.results = ShapeEmptyResults \/ ShapeRunDone)
    /\ (~conv.isRunning => conv.results = ConvEmptyResults \/ ConvRunDone)

\* C12: a run that is started and not cancelled (its slide stays mounted)
\* ends, with isRunning false and one point per entry of the schedule.  At
\* every moment the progress counter is the number of points appended so far
\* and is at most the length of the schedule, every step appends one point
\* and adds one to the counter, and a curve that is not being built is empty
\* or complete.
C12_RunIsFinite ==
    /\ []RunWithinSchedule
    /\ [][ /\ shape'.animationStep \in {shape.animationStep, shape.animationStep + 1, 0, 1}
           /\ conv'.currentStep \in {conv.currentStep, conv.currentStep + 1, 0, 1} ]_vars
    /\ (shape.isRunning ~> (currentSlide # SLIDE_SHAPE \/ ShapeRunDone))
    /\ (conv.isRunning ~> (currentSlide # SLIDE_CONVERGENCE \/ ConvRunDone))

\* A run of EstimatorConvergence has ended on its own: the curve is complete
\* and the last call of runStep has cleared isRunning.
C12_Witness ==
    /\ currentSlide = SLIDE_CONVERGENCE
    /\ lastOp.op = "runStep"
    /\ ConvRunDone
    /\ convLoops = {}
\* ------------------------------------------------------ claims: populations
InOpenRange(lum) == 0 < lum /\ lum < 80

FilteredLuminosities(catalog) ==
    SelectSeq([i \in 1..Len(catalog) |-> 100 - catalog[i]], InOpenRange)

\* C13: every population built from the star catalog, on every slide that
\* builds one, holds luminosity = 100 - 10 x magnitude of exactly the entries
\* whose luminosity is strictly between 0 and 80, and the mean and standard
\* deviation used as ground truth are those of that filtered set.
C13_FilteredEverywhere ==
    population.loaded =>
       /\ population.lums = FilteredLuminosities(population.catalog)
       /\ population.stats = statsOf(FilteredLuminosities(population.catalog))

\* C14: nothing is substituted for invalid input.  A population that is
\* stored has at least one observation (an empty one is refused with an
\* error instead), and no point of a curve is a substituted 0 or a NaN.
C14_NoSilentDefault ==
    /\ (population.loaded => population.stats.n > 0)
    /\ \A i \in 1..Len(population.curve) : population.curve[i].value = "finite"
\* ------------------------------------------------ claims: sample statistics
SquaredDeviations(samples) ==
    LET mean == SumSeq(samples) \div Len(samples)
    IN  SumSeq([i \in 1..Len(samples) |-> (samples[i] - mean) * (samples[i] - mean)])

StdOfPair ==
    batch.n = 2 /\ batch.history # << >> =>
       Last(batch.history).sampleStd = Num(FloorSqrt(SquaredDeviations(batch.samples) \div 1))

AbsErrors(estimates, truth) ==
    [i \in 1..Len(estimates) |-> Abs(estimates[i].v - truth.v)]

MeasuredMeans == [i \in 1..Len(batch.history) |-> batch.history[i].sampleMean]

MeasuredStds == [i \in 1..Len(batch.history) |-> batch.history[i].sampleStd]

\* C18: in every trial batch of T trials the truth values are positive, each
\* trial that has run has added its |sampleMean - mu| and |sampleStd - sigma|
\* once to the totals, and the batch returns
\* (sum of |sampleMean - mu|) / T / mu x 100 and
\* (sum of |sampleStd - sigma|) / T / sigma x 100 over exactly T trials, both
\* at least 0 (the mean error is reported by runForSampleSize only).
C18_AverageAbsoluteError ==
    batch.sim # "none" =>
       LET mu == popMean(batch.sim)
           sigma == popStd(batch.sim)
           sumMean == SumSeq(AbsErrors(MeasuredMeans, mu))
           sumStd == SumSeq(AbsErrors(MeasuredStds, sigma))
       IN  /\ mu.v > 0 /\ sigma.v > 0
           /\ Len(batch.history) = batch.t /\ batch.t <= batch.trials
           /\ batch.totalStdError = Num(sumStd)
           /\ (batch.sim = "runForSampleSize" => batch.totalMeanError = Num(sumMean))
           /\ (batch.done =>
                 /\ batch.t = batch.trials
                 /\ batch.stdError = Num((((sumStd \div batch.trials) * SCALE) \div sigma.v) * 100)
                 /\ ~batch.stdError.nan /\ batch.stdError.v >= 0
                 /\ (batch.sim = "runForSampleSize" =>
                       /\ batch.meanError
                             = Num((((sumMean \div batch.trials) * SCALE) \div mu.v) * 100)
                       /\ ~batch.meanError.nan /\ batch.meanError.v >= 0))

\* A batch of runForSampleSize has returned after two trials that measured
\* different, nonzero errors.
C18_Witness ==
    /\ batch.sim = "runForSampleSize"
    /\ batch.done
    /\ batch.trials = 2
    /\ batch.history[1] # batch.history[2]
    /\ \A i \in 1..2 :
          /\ batch.history[i].sampleMean # popMean(batch.sim)
          /\ batch.history[i].sampleStd # popStd(batch.sim)
    /\ batch.meanError.v > 0
    /\ batch.stdError.v > 0
\* --------------------------------------------------- claims: Normal sampler
\* C16: in every Box-Muller call, at every place that draws Normal values,
\* the uniform value handed to the logarithm is strictly positive, so every
\* Normal value drawn is finite.
C16_LogArgumentPositive ==
    \A i \in 1..Len(normal.values) :
       /\ normal.values[i].u1 > 0
       /\ normal.values[i].z = "finite"
\* --------------------------------------------------- claims: distributions
FracTimes(a, b) == Frac(a.num * b.num, a.den * b.den)

OneMinus(a) == Frac(a.den - a.num, a.den)

\* The closed-form mean of a distribution family with the given parameters.
ClosedFormMean(d) ==
    CASE d.family = "DiscreteUniform" -> Frac(d.k + 1, 2)
      [] d.family = "Bernoulli" -> d.p
      [] d.family = "Binomial" -> FracTimes(Frac(d.n, 1), d.p)
      [] d.family = "Poisson" -> Frac(d.lambda, 1)
      [] d.family = "Normal" -> Frac(d.mu, 1)
      [] d.family = "Exponential" -> Frac(1, d.lambda)
      [] d.family = "ContinuousUniform" -> Frac(d.a + d.b, 2)

\* The closed-form variance.
ClosedFormVariance(d) ==
    CASE d.family = "DiscreteUniform" -> Frac(d.k * d.k - 1, 12)
      [] d.family = "Bernoulli" -> FracTimes(d.p, OneMinus(d.p))
      [] d.family = "Binomial" -> FracTimes(Frac(d.n, 1), FracTimes(d.p, OneMinus(d.p)))
      [] d.family = "Poisson" -> Frac(d.lambda, 1)
      [] d.family = "Normal" -> Frac(d.sigma * d.sigma, 1)
      [] d.family = "Exponential" -> Frac(1, d.lambda * d.lambda)
      [] d.family = "ContinuousUniform" -> Frac((d.b - d.a) * (d.b - d.a), 12)

\* The values the documentation gives: the mean and the square of the std.
DocumentedMean ==
    [uniform |-> Frac(7, 2), bernoulli |-> Frac(3, 5), binomial |-> Frac(5, 1),
     poisson |-> Frac(4, 1), normal |-> Frac(0, 1), exponential |-> Frac(1, 1),
     uniform_cont |-> Frac(1, 2)]

DocumentedVariance ==
    [uniform |-> Frac(35, 12), bernoulli |-> Frac(24, 100), binomial |-> Frac(5, 2),
     poisson |-> Frac(4, 1), normal |-> Frac(1, 1), exponential |-> Frac(1, 1),
     uniform_cont |-> Frac(1, 12)]

\* C17: for the distribution selected in CentralLimitTheorem, whichever of
\* the seven it is, getMean() and getStd() are the closed-form mean and
\* standard deviation for the parameters its sampler uses (3.5 and
\* sqrt(35/12), 0.6 and sqrt(0.24), 5 and sqrt(2.5), 4 and 2, 0 and 1, 1 and
\* 1, 0.5 and 1/sqrt(12)), and getStd() is positive.
C17_ClosedFormMoments ==
    zoo.dist # "none" =>
       /\ zoo.dist \in DistKeys
       /\ Cardinality(DistKeys) = 7
       /\ FracEq(zoo.theoreticalMean, ClosedFormMean(samplerOf(zoo.dist)))
       /\ FracEq(zoo.sigmaSquared, ClosedFormVariance(samplerOf(zoo.dist)))
       /\ FracEq(zoo.theoreticalMean, DocumentedMean[zoo.dist])
       /\ FracEq(zoo.sigmaSquared, DocumentedVariance[zoo.dist])
       /\ zoo.sigmaSquared.num > 0 /\ zoo.sigmaSquared.den > 0

\* Poisson has been picked from the list, with the largest sample size.
C17_Witness ==
    /\ zoo.dist = "poisson"
    /\ zoo.selectedType = "discrete"
    /\ zoo.n = 50
\* ------------------------------------------------------ claims: navigation
\* The documented order of the deck: 0 TitleSlide ... 14 Conclusion.
DocumentedOrder ==
    [i \in 0..14 |->
        CASE i = 0 -> "TitleSlide" [] i = 1 -> "Announcements" [] i = 2 -> "Overview"
          [] i = 3 -> "HookSlide" [] i = 4 -> "RandomVariable"
          [] i = 5 -> "DistributionZoo" [] i = 6 -> "PopulationSample"
          [] i = 7 -> "SamplingMethods" [] i = 8 -> "VarianceStdDev"
          [] i = 9 -> "EstimatorConvergence" [] i = 10 -> "DistributionShape"
          [] i = 11 -> "CentralLimitTheorem" [] i = 12 -> "SampleSizeEffect"
          [] i = 13 -> "ConfidenceIntervals" [] i = 14 -> "Conclusion"]

\* What a key is documented to do to the slide index.
DocumentedKey(prev, key) ==
    IF key = "ArrowRight" THEN (IF prev = 14 THEN prev ELSE prev + 1)
    ELSE IF key = "ArrowLeft" THEN (IF prev = 0 THEN prev ELSE prev - 1)
    ELSE prev

SlideInRange ==
    /\ currentSlide \in 0..14
    /\ SLIDES[currentSlide + 1] = DocumentedOrder[currentSlide]

\* The audit has pressed ArrowRight currentIndex times from the title slide.
PressesFromTitle ==
    script.driver = "audit" =>
        /\ currentSlide = Min(script.currentIndex, 14)
        /\ SLIDES[currentSlide + 1] = DocumentedOrder[Min(script.currentIndex, 14)]

\* goToSlide has returned: the deck shows the target slide.
GoToSlideEndsOnTarget ==
    (script.driver = "screenshots" /\ script.pc = "main") =>
        /\ currentSlide = script.target
        /\ script.currentIndex = script.target

HookStepInRange == hook \in 0..3

\* The buttons HookSlide offers at each step.
HookButtons ==
    /\ forwardButton(hook) =
          (CASE hook = 0 -> "Reveal sigma"
             [] hook = 1 -> "Show Distributions"
             [] hook = 2 -> "Show Probabilities"
             [] OTHER -> "none")
    /\ backButton(hook) <=> hook > 0
    /\ hook = 3 => lateProbabilities(hook)
    /\ (ENABLED ClickForward) <=>
          (script.driver = "none" /\ currentSlide = SLIDE_HOOK /\ hook < 3)
    /\ (ENABLED ClickBack) <=>
          (script.driver = "none" /\ currentSlide = SLIDE_HOOK /\ hook > 0)

\* takeScreenshots has tried its forward buttons hookClicks times on the
\* freshly shown HookSlide: every one was there and was clicked.
ForwardClicksCount ==
    (script.driver = "screenshots" /\ script.pc = "main" /\ script.target = 3) =>
        hook = script.hookClicks

PoissonStopsAtFirst ==
    /\ (poisson.pc = "loop" /\ poisson.k > 0) => poisson.p > poissonL
    /\ poisson.pc = "returned" =>
          /\ poisson.p <= poissonL
          /\ poisson.k >= 1
          /\ poisson.result = poisson.k - 1
          /\ poisson.result \in Nat

\* A turn is one multiplication of the running product, which starts at 1,
\* by one uniform draw.
PoissonMultiplies ==
    /\ BeginPoisson => poisson'.p = 20 * SCALE /\ poisson'.k = 0
    /\ (\E j \in UniformDraws : PoissonTurn(j)) =>
          /\ poisson'.k = poisson.k + 1
          /\ \E j \in UniformDraws : poisson'.p = (poisson.p * j) \div RandRes

BuiltForCurrentSize ==
    \A i \in 1..Len(ci.intervals) :
        /\ ci.intervals[i].upper - ci.intervals[i].mean = marginOfError(ci.sampleSize)
        /\ ci.intervals[i].mean - ci.intervals[i].lower = marginOfError(ci.sampleSize)

\* No timer holds a takeSample of another sample size than the selected one.
NoTimerOfPreviousSize == \A size \in ciTimers : size = ci.sampleSize

\* C23: every interval the tracker holds was built for the currently
\* selected sample size, with that size's margin of error: a change of the
\* sample size clears the tracker, and afterwards nothing built for the
\* previous size (by a timer of the previous render, say) is appended.
C23_IntervalsOfCurrentSize ==
    /\ [](BuiltForCurrentSize /\ NoTimerOfPreviousSize)
    /\ [][ci'.sampleSize # ci.sampleSize => ci'.intervals = << >>]_vars

\* The sample size was changed while the simulation ran, and two intervals
\* have been recorded since.
C23_Witness ==
    /\ currentSlide = SLIDE_CI
    /\ ci.isRunning
    /\ ci.sampleSize = 100
    /\ Len(ci.intervals) = 2
    /\ lastOp.op = "takeSample"

\* A timer is active exactly while the slide is mounted and running, and
\* then it is the only one.
OneTimerWhileRunning ==
    /\ Cardinality(ciTimers) <= 1
    /\ (ciTimers # {}) <=> (currentSlide = SLIDE_CI /\ ci.isRunning)

\* Paused or unmounted, the intervals stay as they are or are emptied, by
\* Reset, by a change of the sample size, or by leaving the slide.
NoAppendWhilePaused ==
    (~ci.isRunning \/ currentSlide # SLIDE_CI) =>
        \/ ci'.intervals = ci.intervals
        \/ /\ ci'.intervals = << >>
           /\ lastOp'.op \in {"reset", "resize", "key"}

\* C26: while the ConfidenceIntervals simulation is paused or its slide is
\* unmounted no interval is appended: the intervals change only through
\* Reset or a change of the sample size (leaving the slide drops them), and
\* at most one sampling timer is active, however often Run/Pause is toggled
\* or the sample size is changed.
C26_PausedMeansNoAppend ==
    /\ []OneTimerWhileRunning
    /\ [][NoAppendWhilePaused]_vars

\* The simulation was paused with intervals recorded, and is paused still.
C26_Witness ==
    /\ currentSlide = SLIDE_CI
    /\ ~ci.isRunning
    /\ ciTimers = {}
    /\ Len(ci.intervals) = 3
    /\ lastOp.op = "toggle"
\* ------------------------------------------- claims: CentralLimitTheorem
\* Every recorded mean, and the takeSample of the timer, are of the selected
\* sample size and distribution.
MeansOfCurrentSetting ==
    LET setting == [n |-> zoo.n, dist |-> zoo.dist]
    IN  /\ \A i \in 1..Len(zoo.sampleMeans) : zoo.sampleMeans[i] = setting
        /\ \A closure \in zoo.timers : closure = setting

\* A change of the distribution or of n leaves no mean in the histogram.
ChangeClearsMeans ==
    (zoo'.dist # zoo.dist \/ zoo'.n # zoo.n) => zoo'.sampleMeans = << >>

HighlightedAreDistinct ==
    highlight.pc = "done" =>
        /\ Len(highlight.indices) = 30
        /\ \A i, j \in 1..Len(highlight.indices) :
              i # j => highlight.indices[i] # highlight.indices[j]
        /\ \A i \in 1..Len(highlight.indices) :
              highlight.indices[i] \in 0..(highlight.numStars - 1)

\* With fewer than 30 stars the loop is never left.
SmallCatalogNeverDone == highlight.numStars < 30 => highlight.pc # "done"

\* C25: PopulationSample.takeSample yields exactly 30 pairwise distinct
\* star indices, each in 0..N-1; its selection loop terminates whenever the
\* catalog has at least 30 stars (every index being drawn eventually), and
\* never terminates when the catalog has fewer.
C25_ThirtyDistinctStars ==
    /\ [](HighlightedAreDistinct /\ SmallCatalogNeverDone)
    /\ (highlight.pc = "loop" /\ highlight.numStars >= 30) ~> (highlight.pc = "done")

\* A sample of 30 out of exactly 30 stars, drawn from a seed in mid-period.
C25_Witness ==
    /\ highlight.pc = "done"
    /\ highlight.numStars = 30
    /\ highlight.indices[1] > 10
    /\ Len(highlight.indices) = 30
\* ------------------------------------------- claims: distribution pickers
\* The groups as documented.
DocumentedGroup(type) ==
    IF type = "discrete" THEN {"uniform", "bernoulli", "binomial", "poisson"}
    ELSE {"normal", "exponential", "uniform_cont"}

DocumentedFirst(type) == IF type = "discrete" THEN "uniform" ELSE "normal"

\* The selected distribution is of the selected type, on both slides.
SelectedInGroup ==
    /\ distZoo.selectedDist # "none" =>
          /\ distZoo.selectedType \in {"discrete", "continuous"}
          /\ distZoo.selectedDist \in DocumentedGroup(distZoo.selectedType)
          /\ zooDistType(distZoo.selectedDist) = distZoo.selectedType
    /\ zoo.dist # "none" =>
          /\ zoo.selectedType \in {"discrete", "continuous"}
          /\ zoo.dist \in DocumentedGroup(zoo.selectedType)
          /\ cltDistType(zoo.dist) = zoo.selectedType

\* A switch of the type selects the first distribution of the new type.
SwitchSelectsFirst ==
    /\ (distZoo.selectedDist # "none" /\ distZoo'.selectedDist # "none"
           /\ distZoo'.selectedType # distZoo.selectedType)
          => distZoo'.selectedDist = DocumentedFirst(distZoo'.selectedType)
    /\ (zoo.dist # "none" /\ zoo'.dist # "none" /\ zoo'.selectedType # zoo.selectedType)
          => zoo'.dist = DocumentedFirst(zoo'.selectedType)
    /\ \A type \in {"discrete", "continuous"} :
          /\ SelectTypeDistZoo(type) => distZoo'.selectedDist = DocumentedFirst(type)
          /\ SelectType(type) => zoo'.dist = DocumentedFirst(type)

\* C27: after any type-toggle and distribution-button clicks, in
\* DistributionZoo and in the Central Limit Theorem slide, the selected
\* distribution belongs to the group of the selected type (discrete:
\* uniform, bernoulli, binomial, poisson; continuous: normal, exponential,
\* uniform_cont), and switching the type selects that group's first
\* distribution.
C27_SelectionMatchesType ==
    /\ []SelectedInGroup
    /\ [][SwitchSelectsFirst]_vars

\* On DistributionZoo the last continuous distribution is selected, on
\* CentralLimitTheorem the last discrete one, after a return to discrete.
C27_Witness ==
    /\ distZoo.selectedType = "continuous"
    /\ distZoo.selectedDist = "uniform_cont"
    /\ zoo.selectedType = "discrete"
    /\ zoo.dist = "poisson"
    /\ Len(zoo.sampleMeans) > 0
\* ---------------------------------------------- claims: SampleSizeEffect
\* The interval is on display exactly when the button was the last input;
\* it is the interval of the n on display; n is within 4..500.
IntervalAfterCalculate ==
    sizeEffect.mounted =>
        /\ sizeEffect.showCI <=> sizeEffect.last = "calculate"
        /\ sizeEffect.ci = ciOf(sizeEffect.n)
        /\ sizeEffect.n >= 4 /\ sizeEffect.n <= 500

\* A change of n hides the interval; only the button shows it, and it leaves n.
ChangeHidesInterval ==
    (sizeEffect.mounted /\ sizeEffect'.mounted) =>
        /\ sizeEffect'.n # sizeEffect.n => ~sizeEffect'.showCI
        /\ sizeEffect'.last \in {"range", "number"} => ~sizeEffect'.showCI
        /\ sizeEffect'.showCI => (sizeEffect'.n = sizeEffect.n /\ sizeEffect'.ci = sizeEffect.ci)
        /\ sizeEffect'.last = "calculate" => sizeEffect'.showCI

\* C28: in the SampleSizeEffect slide the confidence interval is displayed
\* only if 'Calculate CI' was pressed after the most recent change of n:
\* every change of n through the slider or the number field hides the
\* interval, pressing 'Calculate CI' shows the interval for the current n,
\* and n stays within 4..500 after any input.
C28_IntervalOnlyAfterCalculate ==
    /\ []IntervalAfterCalculate
    /\ [][ChangeHidesInterval]_vars

\* The interval is shown for the largest n, which only the number field gives.
C28_Witness ==
    /\ sizeEffect.mounted
    /\ sizeEffect.n = 500
    /\ sizeEffect.showCI
    /\ sizeEffect.ci.low > 0
\* ----------------------------------------------- claims: bus simulation
DigitChars == {"0", "1", "2", "3", "4", "5", "6", "7", "8", "9"}

\* 8:mm or 9:mm with mm two digits in 00..59.
ValidClockTime(time) ==
    /\ time.hour \in {"8", "9"}
    /\ Len(time.minutes) = 2
    /\ time.minutes[1] \in {"0", "1", "2", "3", "4", "5"}
    /\ time.minutes[2] \in DigitChars

\* C29: every arrival time the bus simulation shows, as the current arrival
\* or among the previous ones, is a clock time 8:mm or 9:mm with mm a
\* two-digit number in 00..59, whatever the Normal draw produced (arrivals
\* before 8:00 or from 10:00 on included).
C29_ValidClockTimes ==
    /\ bus.arrivalTime # NoTime => ValidClockTime(bus.arrivalTime)
    /\ \A i \in 1..Len(bus.history) : ValidClockTime(bus.history[i])
====
